---- MODULE Spec2Model ----
(***************************************************************************)
(* A model of the university directory: the taxonomy tables, the three     *)
(* import commands (import_filters, import_universities,                   *)
(* import_directions), the slug derivation of University.save and          *)
(* Direction.save, and the listing views.                                  *)
(*                                                                         *)
(* The store is the relational database.  A table whose rows carry a       *)
(* primary key is a function from keys to rows; a table whose rows are     *)
(* only looked up by their fields (Gallery, TuitionFee) is a set of rows.  *)
(* An import command runs inside one transaction (transaction.atomic):     *)
(* an unhandled error puts the tables back as they were at the start of    *)
(* the run.  A command reads its feed record by record, so a run is a      *)
(* sequence of steps, one per record.                                      *)
(***************************************************************************)
EXTENDS Integers, Sequences, FiniteSets, TLC

VARIABLES
  tax,      \* taxonomy tables: [TableKeys -> [ids -> name]]
  unis,     \* University rows: [ids -> row]
  gallery,  \* Gallery rows (a set of records)
  media,    \* names of the files held by the file storage
  dirs,     \* Direction rows: [keys -> row]
  fees,     \* TuitionFee rows (a set of records)
  run,      \* the import run in progress (command, position, counters)
  last,     \* the last operation: its input and the state it met
  resp      \* the last listing response

vars == <<tax, unis, gallery, media, dirs, fees, run, last, resp>>

stores == <<tax, unis, gallery, media, dirs, fees>>

\* The tables of the database (the file storage is no part of it).
Tables ==
  [tax |-> tax, unis |-> unis, gallery |-> gallery, dirs |-> dirs,
   fees |-> fees]

(***************************************************************************)
(* Bounds of the model.                                                    *)
(***************************************************************************)
MaxTaxId == 2       \* taxonomy ids are 1..MaxTaxId
MaxItems == 1       \* items of a taxonomy feed
MaxVals == 3        \* values of one taxonomy item
MaxFeed == 2        \* records of a feed processed in one run
MaxRows == 4        \* rows saved into one table
MaxFiles == 4       \* files the storage holds

Min(S) == CHOOSE x \in S : \A y \in S : x <= y

Range(f) == {f[x] : x \in DOMAIN f}

\* The element of a set of one element: The({F(x) : x \in {e}}) is F(e)
\* with e evaluated once.
The(S) == CHOOSE x \in S : TRUE

NoEvent == [op |-> "none"]

\* transaction.atomic left with rollback, leaving the tables as they are
Rollback_Keep(now, before) == now

\* transaction.atomic left with rollback: the tables are what they were
\* when the transaction began.
Rollback(now, before) == before

\* No run in progress.  Of a run in progress: `before` holds the tables as
\* they were when the transaction began, `broken` tells that an error
\* raised by a write was caught inside the transaction.
NoRun == [cmd |-> "none", key |-> "", n |-> 0, v |-> 0,
          created |-> 0, updated |-> 0, skipped |-> 0,
          broken |-> FALSE, before |-> <<>>]

(***************************************************************************)
(* Taxonomy tables (models.py) and import_filters.                         *)
(***************************************************************************)
TableKeys ==
  {"institution_category_id", "location", "category",
   "edu_type", "edu_lang", "degree"}

TaxIds == 1..MaxTaxId

\* The names a feed carries; one of them has surrounding white space.
RawNames == {"A", "B", " A "}

\* str.strip() on the names of the model.
Strip(s) == IF s = " A " THEN "A" ELSE s

\* A value of a taxonomy item: id 0 stands for "no id" (rec.get("id") is
\* None or 0, both false in `if id_value`).
TaxRecs == [id : 0..MaxTaxId, name : RawNames]

EmptyTable == [i \in {} |-> ""]

\* name is unique in every taxonomy table: a row other than `self` holds it.
NameTaken(t, name, self) == \E j \in DOMAIN t : j # self /\ t[j] = name

\* SaveName without the unique constraint's veto.
SaveName_Unchecked(t, id, name) == [t EXCEPT ![id] = name]

\* obj.save() of an existing row whose name was changed: the unique
\* constraint on name rejects the write (IntegrityError).
SaveName(t, id, name) ==
  IF NameTaken(t, name, id) THEN t ELSE [t EXCEPT ![id] = name]

\* The key the store gives a row inserted without one.
FreshId(t) == Min(TaxIds \ DOMAIN t)

\* CreateWithId that drops the id of the feed and lets the store pick one.
CreateWithId_StoreKey(t, id, name) ==
  IF NameTaken(t, name, 0) THEN t
  ELSE [j \in DOMAIN t \cup {FreshId(t)} |->
          IF j = FreshId(t) THEN name ELSE t[j]]

\* model.objects.create(id=id_value, name=name): rejected when the name is
\* held by a row (the id is known to be free).
CreateWithId(t, id, name) ==
  IF NameTaken(t, name, 0) THEN t
  ELSE [j \in DOMAIN t \cup {id} |-> IF j = id THEN name ELSE t[j]]

\* model.objects.get_or_create(name=name)
GetOrCreateByName(t, name) ==
  IF NameTaken(t, name, 0) THEN t
  ELSE [j \in DOMAIN t \cup {FreshId(t)} |->
          IF j = FreshId(t) THEN name ELSE t[j]]

\* obj.save() or model.objects.create(id=..., name=...) of the id branch
\* raises (IntegrityError: the name is held by another row).
UpsertRaises(t, rec) ==
  /\ rec.id # 0
  /\ IF rec.id \in DOMAIN t
     THEN t[rec.id] # Strip(rec.name) /\ NameTaken(t, Strip(rec.name), rec.id)
     ELSE NameTaken(t, Strip(rec.name), 0)

\* One iteration of the loop of _upsert_objects.  The errors of the id
\* branch are caught (except Exception: print) and the loop goes on.
UpsertOne(t, rec) ==
  LET name == Strip(rec.name)
      id_value == rec.id
  IN IF id_value # 0
     THEN IF id_value \in DOMAIN t
          THEN IF t[id_value] # name THEN SaveName(t, id_value, name) ELSE t
          ELSE CreateWithId(t, id_value, name)
     ELSE GetOrCreateByName(t, name)

\* handle of import_filters is entered: transaction.atomic begins.
BeginFilters ==
  /\ run.cmd = "none"
  /\ run' = [NoRun EXCEPT !.cmd = "import_filters", !.before = Tables]
  /\ last' = [op |-> "begin", cmd |-> "import_filters"]
  /\ UNCHANGED <<stores, resp>>

\* An item whose name is a key of MODEL_MAP and whose value is a list.
FilterItemOpen(k) ==
  /\ run.cmd = "import_filters" /\ run.key = ""
  /\ run.n < MaxItems
  /\ run' = [run EXCEPT !.key = k, !.n = @ + 1, !.v = 0]
  /\ last' = [op |-> "item", key |-> k]
  /\ UNCHANGED <<stores, resp>>

\* Any other item is skipped and tallied.
FilterItemSkip ==
  /\ run.cmd = "import_filters" /\ run.key = ""
  /\ run.n < MaxItems
  /\ run' = [run EXCEPT !.n = @ + 1, !.skipped = @ + 1]
  /\ last' = [op |-> "skip_item"]
  /\ UNCHANGED <<stores, resp>>

\* One value of the item is processed.  handle runs inside
\* transaction.atomic and Model.save marks the transaction for rollback
\* when a write raises inside it: once an error of the id branch has been
\* caught the transaction is broken, and every later query raises
\* TransactionManagementError, which the id branch catches as well.
FilterUpsert(rec) ==
  /\ run.cmd = "import_filters" /\ run.key # ""
  /\ run.v < MaxVals
  /\ run.broken => rec.id # 0
  /\ (~run.broken /\ rec.id = 0
      /\ ~NameTaken(tax[run.key], Strip(rec.name), 0))
       => TaxIds \ DOMAIN tax[run.key] # {}
  /\ tax' = IF run.broken THEN tax
            ELSE [tax EXCEPT ![run.key] = UpsertOne(@, rec)]
  /\ run' = [run EXCEPT !.v = @ + 1,
               !.broken = @ \/ UpsertRaises(tax[run.key], rec)]
  /\ last' = [op |-> "upsert", key |-> run.key, rec |-> rec,
              pre |-> tax[run.key], broken |-> run.broken]
  /\ UNCHANGED <<unis, gallery, media, dirs, fees, resp>>

\* A value without an id in a broken transaction: get_or_create raises
\* TransactionManagementError outside the try, handle ends with the error
\* and transaction.atomic rolls back.
FilterUpsertFails(rec) ==
  /\ run.cmd = "import_filters" /\ run.key # ""
  /\ run.v < MaxVals
  /\ run.broken /\ rec.id = 0
  /\ tax' = Rollback(tax, run.before.tax)
  /\ run' = NoRun
  /\ last' = [op |-> "failed", cmd |-> "import_filters",
              before |-> run.before, dirty |-> Tables # run.before]
  /\ UNCHANGED <<unis, gallery, media, dirs, fees, resp>>

FilterItemClose ==
  /\ run.cmd = "import_filters" /\ run.key # ""
  /\ run' = [run EXCEPT !.key = "", !.created = @ + 1]
  /\ last' = [op |-> "item_done"]
  /\ UNCHANGED <<stores, resp>>

\* The end of handle: the counts are printed and transaction.atomic
\* commits, or rolls back when the transaction is broken.
EndFilters ==
  /\ run.cmd = "import_filters" /\ run.key = ""
  /\ tax' = IF run.broken THEN Rollback(tax, run.before.tax) ELSE tax
  /\ run' = NoRun
  /\ last' = [op |-> "report", cmd |-> "import_filters",
              created |-> run.created, updated |-> 0,
              skipped |-> run.skipped, committed |-> ~run.broken]
  /\ UNCHANGED <<unis, gallery, media, dirs, fees, resp>>

\* The keys the taxonomy feeds of the model use.
FeedKeys == {"location", "edu_type"}

InitFilters ==
  /\ tax = [k \in TableKeys |-> EmptyTable]
  /\ unis = <<>>
  /\ gallery = {}
  /\ media = {}
  /\ dirs = <<>>
  /\ fees = {}
  /\ run = NoRun
  /\ last = NoEvent
  /\ resp = NoEvent

NextFilters ==
  \/ BeginFilters
  \/ \E k \in FeedKeys : FilterItemOpen(k)
  \/ FilterItemSkip
  \/ \E rec \in TaxRecs : FilterUpsert(rec)
  \/ \E rec \in TaxRecs : FilterUpsertFails(rec)
  \/ FilterItemClose
  \/ EndFilters

SpecFilters == InitFilters /\ [][NextFilters]_vars

(***************************************************************************)
(* slugify, University.save and Direction.save (models.py).                *)
(***************************************************************************)
\* django.utils.text.slugify on the names of the model: lower case, every
\* character that is not an ASCII letter, digit, space or hyphen dropped,
\* spaces turned into hyphens, hyphens at both ends stripped.  Two of the
\* university names differ only in case and one has no ASCII letter at all.
Slugify(s) ==
  CASE s = "Tashkent State University" -> "tashkent-state-university"
    [] s = "TASHKENT STATE UNIVERSITY" -> "tashkent-state-university"
    [] s = "TSU" -> "tsu"
    [] s = "Tsu!" -> "tsu"
    [] s = "Tashkent State University 1" -> "tashkent-state-university-1"
    [] s = "Math" -> "math"
    [] s = "MATH" -> "math"
    [] s = "Law" -> "law"
    [] s = "Unnamed" -> "unnamed"
    [] OTHER -> ""

\* slugify(f"{slug}-{name}") for a slug that is already in slug form: the
\* hyphen between the parts survives only when both parts are non-empty.
SlugifyJoined(slug, name) ==
  IF Slugify(name) = "" THEN slug
  ELSE IF slug = "" THEN Slugify(name)
  ELSE slug \o "-" \o Slugify(name)

\* The loop of University.save and Direction.save: base, base-1, base-2, ...
\* until no other row uses the slug.  `taken` are the slugs of the other
\* rows.
SuffixedSlug(base, k) == base \o "-" \o ToString(k)

\* FirstFreeSlug that stops at the first candidate whatever it collides with.
FirstFreeSlug_NoLoop(base, taken) == base

RECURSIVE SlugLoop(_, _, _, _)
\* while ....filter(slug=self.slug).exclude(pk=self.pk).exists():
\*     self.slug = f"{original_slug}-{counter}"; counter += 1
SlugLoop(slug, base, counter, taken) ==
  IF slug \in taken
  THEN SlugLoop(SuffixedSlug(base, counter), base, counter + 1, taken)
  ELSE slug

FirstFreeSlug(base, taken) == SlugLoop(base, base, 1, taken)

(***************************************************************************)
(* University rows.  NULL stands for a null number, 0 for a null foreign   *)
(* key, "" for an empty text or file field.                                *)
(***************************************************************************)
NULL == -1

NoUnis == [i \in {} |-> 0]

\* The slugs of the rows other than pk: filter(slug=...).exclude(pk=self.pk)
OtherSlugs(table, pk) == {table[i].slug : i \in DOMAIN table \ {pk}}

\* University.save: a row with an empty slug gets one derived from its name.
UniversitySlug(table, obj) ==
  IF obj.slug = ""
  THEN FirstFreeSlug(Slugify(obj.full_name), OtherSlugs(table, obj.id))
  ELSE obj.slug

\* The columns of a University row (the many-to-many links of a row live in
\* their own tables, keyed by the row's id, and are not written by save).
UniColumns ==
  {"full_name", "slug", "logo", "license_file", "description",
   "minimal_tuition_fee", "maximal_tuition_fee", "is_open_for_admission",
   "has_grant", "institution_category", "location"}

UniLinks == {"education_types", "education_languages", "degrees"}

\* The row save() leaves under obj.id: the columns of obj, the links the
\* id already has (none for a new id).
RowOf(table, obj, slug) ==
  [f \in UniColumns \cup UniLinks |->
     IF f = "slug" THEN slug
     ELSE IF f \in UniColumns THEN obj[f]
     ELSE IF obj.id \in DOMAIN table THEN table[obj.id][f] ELSE {}]

\* Model.save() through University.save: UPDATE the row of obj.id, INSERT
\* it when there is none (force_insert: INSERT only).  The primary key and
\* the unique slug make the store reject the write (IntegrityError).
SaveUniversity(table, obj, force_insert) ==
  The({IF force_insert /\ obj.id \in DOMAIN table
         THEN [ok |-> FALSE, unis |-> table, slug |-> slug]
       ELSE IF slug \in OtherSlugs(table, obj.id)
         THEN [ok |-> FALSE, unis |-> table, slug |-> slug]
       ELSE [ok |-> TRUE, slug |-> slug,
             unis |-> [i \in DOMAIN table \cup {obj.id} |->
                         IF i = obj.id THEN RowOf(table, obj, slug)
                         ELSE table[i]]] :
       slug \in {UniversitySlug(table, obj)}})

\* The instance read back from a row.
Instance(table, id) == table[id] @@ [id |-> id]

(***************************************************************************)
(* The helpers of the imports (_import_helpers.py).                        *)
(***************************************************************************)
\* _bool: a JSON boolean ("TRUE", "FALSE") is kept, anything else is true
\* when its text, lower-cased, is "true"; "None" is a missing key.
Bool(v) == v \in {"TRUE", "true", "True"}

\* The row of table whose name is `name`, 0 when there is none:
\* model.objects.filter(name=name).first()
ByName(table, name) ==
  IF \E i \in DOMAIN table : table[i] = name
  THEN CHOOSE i \in DOMAIN table : table[i] = name
  ELSE 0

\* model.objects.filter(id=id).first()
ById(table, id) == IF id \in DOMAIN table THEN id ELSE 0

\* _get_location
GetLocation(name) ==
  IF name = "" THEN 0 ELSE ByName(tax["location"], Strip(name))

\* os.path.basename on the paths of the model.
Basename(raw) ==
  CASE raw = "g/a.jpg" -> "a.jpg"
    [] raw = "g/a b.jpg" -> "a b.jpg"
    [] raw = "http://cdn/b.jpg" -> "b.jpg"
    [] raw = "http://video/1" -> "1"
    [] OTHER -> raw

\* raw.startswith(("http://", "https://"))
IsHttp(raw) == raw \in {"http://cdn/b.jpg", "http://video/1"}

\* raw.lower().endswith(IMAGE_EXT)
HasImageExt(raw) ==
  raw \in {"g/a.jpg", "g/a b.jpg", "http://cdn/b.jpg", "logo.png"}

\* (raw or "").strip() on the gallery entries of the model.
StripRaw(raw) == IF raw = " " THEN "" ELSE raw

\* The name the storage makes of a file name (FieldFile.save, through the
\* storage's get_valid_name): a blank becomes an underscore.
ValidName(filename) == IF filename = "a b.jpg" THEN "a_b.jpg" ELSE filename

\* The name the storage keeps a file under (FieldFile.save): the valid name
\* when it is free, otherwise that name with a suffix that makes it new.
\* No name of the model is the end of another, and a suffixed name does not
\* end with the name it was made from.
AvailableName(files, name) ==
  IF name \notin files THEN name
  ELSE name \o "~" \o
       ToString(Min({k \in 1..(Cardinality(files) + 1) :
                       (name \o "~" \o ToString(k)) \notin files}))

StoredName(files, filename) == AvailableName(files, ValidName(filename))

\* image__endswith=filename
EndsWith(stored, filename) == stored = filename

\* _attach_remote_file that saves a file whatever _download_file returned
AttachRemoteFile_Blind(value, raw, fetched, files) ==
  IF raw = "" \/ value # ""
  THEN [value |-> value, media |-> files, fetch |-> <<>>]
  ELSE [value |-> StoredName(files, Basename(raw)),
        media |-> files \cup {StoredName(files, Basename(raw))},
        fetch |-> <<raw>>]

\* _attach_remote_file on the value of one file field.  `fetched` are the
\* paths whose download succeeds while this record is processed; a failed
\* download (_download_file returns None) leaves the field as it is.
AttachRemoteFile(value, raw, fetched, files) ==
  IF raw = "" \/ value # ""
  THEN [value |-> value, media |-> files, fetch |-> <<>>]
  ELSE IF raw \notin fetched
  THEN [value |-> value, media |-> files, fetch |-> <<raw>>]
  ELSE [value |-> StoredName(files, Basename(raw)),
        media |-> files \cup {StoredName(files, Basename(raw))},
        fetch |-> <<raw>>]

\* The Gallery rows of one university.
GalleryOf(g, uni) == {r \in g : r.university = uni}

NextGalleryId(g) ==
  IF g = {} THEN 1
  ELSE 1 + CHOOSE m \in {r.id : r \in g} : \A r \in g : r.id <= m

\* university.gallery_items.filter(link=raw).exists(), never finding one
LinkExists_Never(g, uni, raw) == FALSE

\* university.gallery_items.filter(link=raw).exists()
LinkExists(g, uni, raw) == \E r \in GalleryOf(g, uni) : r.link = raw

\* university.gallery_items.filter(image__endswith=filename).exists()
ImageExists(g, uni, filename) ==
  \E r \in GalleryOf(g, uni) : r.image # "" /\ EndsWith(r.image, filename)

\* _add_gallery_item on st = [gallery, media, fetch]
AddGalleryItem(st, uni, entry, fetched) ==
  LET raw == StripRaw(entry)
      is_link == IsHttp(raw) /\ ~HasImageExt(raw)
      filename == Basename(raw)
      att == AttachRemoteFile("", raw, fetched, st.media)
  IN IF raw = "" THEN st
     ELSE IF is_link
     THEN IF LinkExists(st.gallery, uni, raw) THEN st
          ELSE [st EXCEPT !.gallery = @ \cup
                  {[id |-> NextGalleryId(st.gallery), university |-> uni,
                    link |-> raw, image |-> ""]}]
     ELSE IF ImageExists(st.gallery, uni, filename) THEN st
     ELSE [gallery |-> st.gallery \cup
                         {[id |-> NextGalleryId(st.gallery),
                           university |-> uni, link |-> "",
                           image |-> att.value]},
           media |-> att.media,
           fetch |-> st.fetch \o att.fetch]

RECURSIVE AddGalleryItems(_, _, _, _)
\* for g_item in u["gallery"]: _add_gallery_item(uni, g_item)
AddGalleryItems(st, uni, entries, fetched) ==
  IF entries = <<>> THEN st
  ELSE The({AddGalleryItems(s1, uni, Tail(entries), fetched) :
              s1 \in {AddGalleryItem(st, uni, Head(entries), fetched)}})

RECURSIVE ResolveByName(_, _, _)
\* The loop over name_keys of _resolve_many: the first key whose value is
\* the name of a row.
ResolveByName(table, itm, name_keys) ==
  IF name_keys = <<>> THEN 0
  ELSE IF itm[Head(name_keys)] # "" /\ ByName(table, itm[Head(name_keys)]) # 0
  THEN ByName(table, itm[Head(name_keys)])
  ELSE ResolveByName(table, itm, Tail(name_keys))

\* One item of _resolve_many with the id consulted before the names
ResolveItem_IdFirst(table, itm, id_key, name_keys) ==
  IF itm[id_key] # 0 /\ ById(table, itm[id_key]) # 0
  THEN ById(table, itm[id_key])
  ELSE ResolveByName(table, itm, name_keys)

\* One item of _resolve_many: by name first, by id when no name matched.
ResolveItem(table, itm, id_key, name_keys) ==
  IF ResolveByName(table, itm, name_keys) # 0
  THEN ResolveByName(table, itm, name_keys)
  ELSE IF itm[id_key] # 0 THEN ById(table, itm[id_key]) ELSE 0

\* _resolve_many, as the set its result is given to .set()
ResolveMany(table, items, id_key, name_keys) ==
  {ResolveItem(table, items[i], id_key, name_keys) : i \in DOMAIN items} \ {0}

UniNameKeys == <<"name_uz", "name_ru", "name_en", "name">>

(***************************************************************************)
(* import_universities.                                                    *)
(***************************************************************************)
\* u.get("full_name_uz") or u.get("full_name_ru") or u.get("full_name_en")
UniName(u) ==
  IF u.full_name_uz # "" THEN u.full_name_uz
  ELSE IF u.full_name_ru # "" THEN u.full_name_ru
  ELSE u.full_name_en

\* u.get("slug") or slugify(uni_name)
UniSlug(u) == IF u.slug # "" THEN u.slug ELSE Slugify(UniName(u))

\* u.get("accreditation_certificate") or u.get("certification_link")
\*   or u.get("license_file")
LicencePath(u) ==
  IF u.accreditation_certificate # "" THEN u.accreditation_certificate
  ELSE IF u.certification_link # "" THEN u.certification_link
  ELSE u.license_file

\* uni_defaults
UniDefaults(u) ==
  [id |-> u.id,
   full_name |-> UniName(u),
   slug |-> UniSlug(u),
   description |-> u.description_uz,
   minimal_tuition_fee |-> u.minimal_tuition_fee,
   maximal_tuition_fee |-> u.maximal_tuition_fee,
   is_open_for_admission |-> Bool(u.is_open_for_admission),
   has_grant |-> Bool(u.has_grant),
   institution_category |->
     IF u.institution_category_id # 0
     THEN ById(tax["institution_category_id"], u.institution_category_id)
     ELSE 0,
   location |-> GetLocation(u.location_uz)]

\* The rows update_or_create looks the record up by: full_name=uni_name
UniLookup(table, name) == {i \in DOMAIN table : table[i].full_name = name}

\* The instance update_or_create works on: a new one when no row has the
\* name, otherwise the row found with every key of defaults, "id" among
\* them, set on it.
UniInstance(table, d, found) ==
  IF found = {}
  THEN d @@ [logo |-> "", license_file |-> ""]
  ELSE d @@ [logo |-> table[The(found)].logo,
             license_file |-> table[The(found)].license_file]

\* University.objects.update_or_create(full_name=uni_name, defaults=...).
\* No row of that name: create(full_name, **defaults).  One row: it is
\* saved under the id the feed gives (UPDATE, or INSERT when that id is
\* new).  Several rows: get() raises MultipleObjectsReturned.
UpdateOrCreateFound(table, found, obj) ==
  IF Cardinality(found) > 1
  THEN [ok |-> FALSE, created |-> FALSE, unis |-> table, obj |-> obj]
  ELSE The({[ok |-> r.ok, created |-> (found = {}), unis |-> r.unis,
             obj |-> [obj EXCEPT !.slug = r.slug]] :
            r \in {SaveUniversity(table, obj, found = {})}})

UpdateOrCreate(table, u) ==
  The({The({UpdateOrCreateFound(table, found, obj) :
              obj \in {UniInstance(table, d,
                                   IF Cardinality(found) = 1 THEN found
                                   ELSE {})}}) :
       d \in {UniDefaults(u)},
       found \in {UniLookup(table, UniName(u))}})

\* if not uni.gallery_items.exists(), taken to hold always
GalleryIsEmpty_Always(g, uni) == TRUE

\* if not uni.gallery_items.exists()
GalleryIsEmpty(g, uni) == GalleryOf(g, uni) = {}

\* uni.education_types.set(...), uni.education_languages.set(...),
\* uni.degrees.set(...): each only when the record has the key.
SetLinks(table, id, u) ==
  [table EXCEPT
     ![id].education_types =
        IF "education_type" \in u.has
        THEN ResolveMany(tax["edu_type"], u.education_type, "id", UniNameKeys)
        ELSE @,
     ![id].education_languages =
        IF "education_language" \in u.has
        THEN ResolveMany(tax["edu_lang"], u.education_language, "id", UniNameKeys)
        ELSE @,
     ![id].degrees =
        IF "degree" \in u.has
        THEN ResolveMany(tax["degree"], u.degree, "id", UniNameKeys)
        ELSE @]

\* The gallery part of the loop body: populate once.
ImportGallery(st, uni, u, fetched) ==
  IF GalleryIsEmpty(st.gallery, uni) /\ "gallery" \in u.has
  THEN AddGalleryItems(st, uni, u.gallery, fetched)
  ELSE st

\* The loop body after update_or_create gave the instance uc.obj: logo and
\* licence (only when blank), gallery, links, uni.save().
ImportFound(st, u, fetched, uc) ==
  The({The({The({
    [ok |-> final.ok, created |-> uc.created, uni |-> uc.obj.id,
     unis |-> final.unis,
     gallery |-> g.gallery, media |-> g.media,
     fetch |-> logo.fetch \o lic.fetch, gfetch |-> g.fetch] :
    final \in {SaveUniversity(SetLinks(uc.unis, uc.obj.id, u),
                 [uc.obj EXCEPT !.logo = logo.value,
                                !.license_file = lic.value], FALSE)},
    g \in {ImportGallery([gallery |-> st.gallery, media |-> lic.media,
                          fetch |-> <<>>], uc.obj.id, u, fetched)}}) :
    lic \in {AttachRemoteFile(uc.obj.license_file, LicencePath(u),
                              fetched, logo.media)}}) :
    logo \in {AttachRemoteFile(uc.obj.logo, u.logo, fetched, st.media)}})

\* One iteration of the loop of handle, on the stores st = [unis, gallery,
\* media]; `fetched` are the paths whose download succeeds meanwhile.
ImportUniversity(st, u, fetched) ==
  The({IF ~uc.ok
       THEN [ok |-> FALSE, created |-> FALSE, uni |-> 0, unis |-> st.unis,
             gallery |-> st.gallery, media |-> st.media,
             fetch |-> <<>>, gfetch |-> <<>>]
       ELSE ImportFound(st, u, fetched, uc) :
       uc \in {UpdateOrCreate(st.unis, u)}})

\* handle of import_universities is entered: transaction.atomic begins.
BeginUniversities ==
  /\ run.cmd = "none"
  /\ run' = [NoRun EXCEPT !.cmd = "import_universities", !.before = Tables]
  /\ last' = [op |-> "begin", cmd |-> "import_universities"]
  /\ UNCHANGED <<stores, resp>>

\* One record of the feed is processed.
UniversityRecord(u, fetched) ==
  \E r \in {ImportUniversity(
               [unis |-> unis, gallery |-> gallery, media |-> media],
               u, fetched)} :
     /\ run.cmd = "import_universities"
     /\ run.n < MaxFeed
     /\ r.ok
     /\ Cardinality(r.media) <= MaxFiles
     /\ unis' = r.unis
     /\ gallery' = r.gallery
     /\ media' = r.media
     /\ run' = [run EXCEPT !.n = @ + 1,
                           !.created = @ + (IF r.created THEN 1 ELSE 0),
                           !.updated = @ + (IF r.created THEN 0 ELSE 1)]
     /\ last' = [op |-> "university", uni |-> r.uni, u |-> u,
                 entries |-> u.gallery, gallery |-> gallery,
                 fetched |-> fetched, fetch |-> r.fetch,
                 gfetch |-> r.gfetch]
     /\ UNCHANGED <<tax, dirs, fees, resp>>

\* A record raises an error nothing handles (IntegrityError of a slug that
\* a row holds, MultipleObjectsReturned): handle ends with the error and
\* transaction.atomic rolls back.  The files the storage took stay.
UniversityRecordFails(u, fetched) ==
  /\ run.cmd = "import_universities"
  /\ run.n < MaxFeed
  /\ \E r \in {ImportUniversity(
                  [unis |-> unis, gallery |-> gallery, media |-> media],
                  u, fetched)} :
       /\ ~r.ok
       /\ unis' = Rollback(unis, run.before.unis)
       /\ gallery' = Rollback(gallery, run.before.gallery)
       /\ media' = r.media
  /\ run' = NoRun
  /\ last' = [op |-> "failed", cmd |-> "import_universities",
              before |-> run.before, dirty |-> Tables # run.before,
              u |-> u, unis |-> unis, gallery |-> gallery, media |-> media]
  /\ UNCHANGED <<tax, dirs, fees, resp>>

\* The end of handle: the transaction commits and the counts are printed.
EndUniversities ==
  /\ run.cmd = "import_universities"
  /\ run' = NoRun
  /\ last' = [op |-> "report", cmd |-> "import_universities",
              created |-> run.created, updated |-> run.updated,
              skipped |-> 0]
  /\ UNCHANGED <<stores, resp>>

RECURSIVE HandleUniversities(_, _, _, _)
\* handle of import_universities as a whole, on the stores st = [unis,
\* gallery, media]: the loop over the feed inside transaction.atomic.  `acc`
\* is the run so far; an unhandled error gives back the tables of `st`.
HandleUniversities(st, feed, fetched, acc) ==
  IF feed = <<>> THEN acc
  ELSE The({
         IF ~r.ok
         THEN [ok |-> FALSE, unis |-> Rollback(acc.unis, st.unis),
               gallery |-> Rollback(acc.gallery, st.gallery),
               media |-> acc.media, created |-> 0, updated |-> 0]
         ELSE The({HandleUniversities(st, Tail(feed), fetched, acc1) :
                acc1 \in {[ok |-> TRUE, unis |-> r.unis,
                  gallery |-> r.gallery, media |-> r.media,
                  created |-> acc.created + (IF r.created THEN 1 ELSE 0),
                  updated |-> acc.updated + (IF r.created THEN 0 ELSE 1)]}}) :
         r \in {ImportUniversity(
                  [unis |-> acc.unis, gallery |-> acc.gallery,
                   media |-> acc.media], Head(feed), fetched)}})

RunUniversities(st, feed, fetched) ==
  The({HandleUniversities(st, feed, fetched, acc) :
       acc \in {[ok |-> TRUE, unis |-> st.unis, gallery |-> st.gallery,
                 media |-> st.media, created |-> 0, updated |-> 0]}})

\* python manage.py import_universities <feed>, from start to end.
ImportUniversities(feed, fetched) ==
  /\ run.cmd = "none"
  /\ last.op = "none"
  /\ \E r \in {RunUniversities(
                  [unis |-> unis, gallery |-> gallery, media |-> media],
                  feed, fetched)} :
     /\ unis' = r.unis
     /\ gallery' = r.gallery
     /\ media' = r.media
     /\ last' = [op |-> IF r.ok THEN "report" ELSE "failed",
                 cmd |-> "import_universities", again |-> FALSE,
                 feed |-> feed, created |-> r.created,
                 updated |-> r.updated, before |-> unis]
     /\ UNCHANGED <<tax, dirs, fees, run, resp>>

\* The same command on the same feed, right after a run that succeeded.
ImportUniversitiesAgain(fetched) ==
  /\ run.cmd = "none"
  /\ last.op = "report" /\ last.cmd = "import_universities"
  /\ ~last.again
  /\ \E r \in {RunUniversities(
                  [unis |-> unis, gallery |-> gallery, media |-> media],
                  last.feed, fetched)} :
     /\ unis' = r.unis
     /\ gallery' = r.gallery
     /\ media' = r.media
     /\ last' = [op |-> IF r.ok THEN "report" ELSE "failed",
                 cmd |-> "import_universities", again |-> TRUE,
                 feed |-> last.feed, created |-> r.created,
                 updated |-> r.updated, before |-> unis]
     /\ UNCHANGED <<tax, dirs, fees, run, resp>>

\* A university record with every optional key missing.
BaseUni ==
  [id |-> 1, full_name_uz |-> "TSU", full_name_ru |-> "",
   full_name_en |-> "", slug |-> "", description_uz |-> "",
   minimal_tuition_fee |-> NULL, maximal_tuition_fee |-> NULL,
   is_open_for_admission |-> "None", has_grant |-> "None",
   institution_category_id |-> 0,
   location_uz |-> "", logo |-> "", accreditation_certificate |-> "",
   certification_link |-> "", license_file |-> "",
   gallery |-> <<>>, has |-> {},
   education_type |-> <<>>, education_language |-> <<>>, degree |-> <<>>]

UniIds == 1..2

\* The records of the feeds of Spec: two names that slugify alike, with and
\* without a slug of their own, with and without a fee, under either id.
UniFeedRecs ==
  {[BaseUni EXCEPT !.id = i, !.full_name_uz = n, !.slug = s,
                   !.minimal_tuition_fee = f] :
     i \in UniIds, n \in {"TSU", "Tsu!"}, s \in {"", "alt"},
     f \in {NULL, 5}}

\* The feeds of at most n records.
FeedsUpTo(recs, n) == UNION {[1..k -> recs] : k \in 0..n}

\* The taxonomy the university and direction imports meet (an earlier
\* import_filters run).
Taxonomy ==
  [k \in TableKeys |->
     IF k \in {"edu_type", "degree"} THEN (1 :> "A") @@ (2 :> "B")
     ELSE (1 :> "A")]

NoStores == [unis |-> NoUnis, gallery |-> {}, media |-> {}]

\* The University table when the first run of Spec starts: empty, or what an
\* earlier import of one record left.
Init ==
  /\ tax = Taxonomy
  /\ \E f \in FeedsUpTo(UniFeedRecs, 1) :
       unis = RunUniversities(NoStores, f, {}).unis
  /\ gallery = {}
  /\ media = {}
  /\ dirs = <<>>
  /\ fees = {}
  /\ run = NoRun
  /\ last = NoEvent
  /\ resp = NoEvent

Next ==
  \/ \E f \in FeedsUpTo(UniFeedRecs, MaxFeed) : ImportUniversities(f, {})
  \/ ImportUniversitiesAgain({})

Spec == Init /\ [][Next]_vars

(***************************************************************************)
(* SpecGallery: runs of import_universities record by record, on feeds     *)
(* whose records carry gallery lists, with downloads that succeed or fail. *)
(***************************************************************************)
GalleryEntries == {"g/a.jpg", "g/a b.jpg", "http://video/1"}

\* The gallery lists of the feeds: none, one image, an image, a link and an
\* image of a name with a blank each given twice, a blank entry before a
\* link and an image.
GalleryLists ==
  {<<>>, <<"g/a.jpg">>, <<"g/a.jpg", "g/a.jpg">>,
   <<"http://video/1", "http://video/1">>,
   <<"g/a b.jpg", "g/a b.jpg">>,
   <<" ", "http://video/1", "g/a.jpg">>}

\* The records of two universities, with every gallery list.
GalleryFeedRecs ==
  {[BaseUni EXCEPT !.id = w[1], !.full_name_uz = w[2],
                   !.gallery = g, !.has = {"gallery"}] :
     w \in {<<1, "TSU">>, <<2, "Law">>},
     g \in GalleryLists}

\* What the downloads of one record may be: all fail, or all succeed.
Downloads == {{}, GalleryEntries}

InitGallery ==
  /\ tax = Taxonomy
  /\ unis = NoUnis
  /\ gallery = {}
  /\ media = {}
  /\ dirs = <<>>
  /\ fees = {}
  /\ run = NoRun
  /\ last = NoEvent
  /\ resp = NoEvent

NextGallery ==
  \/ BeginUniversities
  \/ \E u \in GalleryFeedRecs, fetched \in Downloads :
       UniversityRecord(u, fetched)
  \/ EndUniversities

SpecGallery == InitGallery /\ [][NextGallery]_vars

(***************************************************************************)
(* Direction and TuitionFee rows, and import_directions.  A Direction row  *)
(* is created without a key of its own and the store gives it one.  The    *)
(* scalar columns not listed (requirement, subjects, dates, status, ...)   *)
(* are copied from the record like direction_description.                  *)
(***************************************************************************)
NoDirs == [i \in {} |-> 0]

DirColumns ==
  {"university", "direction_name", "direction_slug",
   "direction_description", "is_open_for_admission", "has_stipend",
   "category"}

DirLinks == {"education_types", "education_languages", "degrees"}

\* The key the store gives a new row of a table keyed 1, 2, ...
NextKey(table) ==
  IF DOMAIN table = {} THEN 1
  ELSE 1 + CHOOSE m \in DOMAIN table : \A i \in DOMAIN table : i <= m

\* filter(direction_slug=...).exclude(pk=self.pk)
OtherDirSlugs(table, pk) ==
  {table[i].direction_slug : i \in DOMAIN table \ {pk}}

\* Direction.save: a row with an empty slug gets one derived from the slug
\* of its university and its name.
DirectionSlug(table, obj, uni_slug) ==
  IF obj.direction_slug = ""
  THEN FirstFreeSlug(SlugifyJoined(uni_slug, obj.direction_name),
                     OtherDirSlugs(table, obj.id))
  ELSE obj.direction_slug

\* Model.save() through Direction.save; the unique direction_slug makes the
\* store reject a slug another row has (IntegrityError).
SaveDirection(table, obj, uni_slug) ==
  The({IF slug \in OtherDirSlugs(table, obj.id)
       THEN [ok |-> FALSE, dirs |-> table]
       ELSE [ok |-> TRUE,
             dirs |-> [i \in DOMAIN table \cup {obj.id} |->
                         IF i # obj.id THEN table[i]
                         ELSE [f \in DirColumns \cup DirLinks |->
                                 IF f = "direction_slug" THEN slug
                                 ELSE IF f \in DirColumns THEN obj[f]
                                 ELSE IF i \in DOMAIN table THEN table[i][f]
                                 ELSE {}]]] :
       slug \in {DirectionSlug(table, obj, uni_slug)}})

\* d.get("direction_name_uz") or d.get("direction_name_ru") or "Unnamed"
DirName(d) ==
  IF d.direction_name_uz # "" THEN d.direction_name_uz
  ELSE IF d.direction_name_ru # "" THEN d.direction_name_ru
  ELSE "Unnamed"

\* d.get("direction_slug") or slugify(f"{uni.slug}-{dir_name}")
DirSlug(uni_slug, d) ==
  IF d.direction_slug # "" THEN d.direction_slug
  ELSE SlugifyJoined(uni_slug, DirName(d))

\* dir_defaults
DirDefaults(uni_slug, d) ==
  [direction_name |-> DirName(d),
   direction_slug |-> DirSlug(uni_slug, d),
   direction_description |-> d.direction_description_uz,
   is_open_for_admission |-> Bool(d.is_open_for_admission),
   has_stipend |-> Bool(d.has_stipend),
   category |-> IF d.category_id # 0
                THEN ById(tax["category"], d.category_id) ELSE 0]

\* The lookup with direction_name=dir_name alone
DirLookup_ByName(table, name, uni) ==
  {i \in DOMAIN table : table[i].direction_name = name}

\* The rows update_or_create looks the record up by:
\* direction_name=dir_name, university=uni
DirLookup(table, name, uni) ==
  {i \in DOMAIN table :
     table[i].direction_name = name /\ table[i].university = uni}

\* Direction.objects.update_or_create(direction_name, university, defaults)
DirUpdateOrCreate(table, uni, uni_slug, defaults) ==
  The({IF Cardinality(found) > 1
       THEN [ok |-> FALSE, created |-> FALSE, dirs |-> table, dir |-> 0]
       ELSE The({The({[ok |-> r.ok, created |-> (found = {}),
                       dirs |-> r.dirs, dir |-> id] :
                      r \in {SaveDirection(table,
                               defaults @@ [id |-> id, university |-> uni],
                               uni_slug)}}) :
                 id \in {IF found = {} THEN NextKey(table) ELSE The(found)}}) :
       found \in {DirLookup(table, defaults.direction_name, uni)}})

DirTypeKeys ==
  <<"education_type_name_uz", "education_type_name_ru",
    "education_type_name_en">>

DirLangKeys ==
  <<"education_language_name_uz", "education_language_name_ru",
    "education_language_name_en">>

DirDegreeKeys == <<"degree_name_uz", "degree_name_ru", "degree_name_en">>

\* dir_obj.education_types.set(...), dir_obj.education_languages.set(...),
\* dir_obj.degrees.set(...): a missing key is an empty list.
SetDirLinks(table, id, d) ==
  [table EXCEPT
     ![id].education_types =
        ResolveMany(tax["edu_type"], d.education_types,
                    "education_type_id", DirTypeKeys),
     ![id].education_languages =
        ResolveMany(tax["edu_lang"], d.education_languages,
                    "education_language_id", DirLangKeys),
     ![id].degrees =
        ResolveMany(tax["degree"], d.degrees, "degree_id", DirDegreeKeys)]

\* The education type of a tuition-fee sub-record: by the first name given,
\* by id when there is no name or no type of that name; 0 when none.
FeeTypeName(fee) ==
  IF fee.education_type_name_uz # "" THEN fee.education_type_name_uz
  ELSE IF fee.education_type_name_ru # "" THEN fee.education_type_name_ru
  ELSE fee.education_type_name_en

FeeType(fee) ==
  IF FeeTypeName(fee) # "" /\ ByName(tax["edu_type"], FeeTypeName(fee)) # 0
  THEN ByName(tax["edu_type"], FeeTypeName(fee))
  ELSE IF fee.education_type_id # 0
  THEN ById(tax["edu_type"], fee.education_type_id)
  ELSE 0

\* The defaults of the TuitionFee update_or_create.
FeeDefaults(fee) ==
  [academic_year |-> fee.academic_year,
   local_tuition_fee |-> fee.local_tuition_fee,
   international_tuition_fee |-> fee.international_tuition_fee]

FeeLookup(fs, dir, et) ==
  {r \in fs : r.direction = dir /\ r.education_type = et}

NextFeeId(fs) ==
  IF fs = {} THEN 1
  ELSE 1 + CHOOSE m \in {r.id : r \in fs} : \A r \in fs : r.id <= m

\* TuitionFee.objects.create(direction, education_type, **defaults) in the
\* place of update_or_create
FeeUpdateOrCreate_Create(fs, dir, et, defaults) ==
  [ok |-> TRUE,
   fees |-> fs \cup {defaults @@ [id |-> NextFeeId(fs), direction |-> dir,
                                  education_type |-> et]}]

\* TuitionFee.objects.update_or_create(direction, education_type, defaults)
FeeUpdateOrCreate(fs, dir, et, defaults) ==
  The({IF found = {}
       THEN [ok |-> TRUE,
             fees |-> fs \cup {defaults @@ [id |-> NextFeeId(fs),
                                            direction |-> dir,
                                            education_type |-> et]}]
       ELSE IF Cardinality(found) = 1
       THEN [ok |-> TRUE,
             fees |-> (fs \ found) \cup
                      {defaults @@ [id |-> The(found).id, direction |-> dir,
                                    education_type |-> et]}]
       ELSE [ok |-> FALSE, fees |-> fs] :
       found \in {FeeLookup(fs, dir, et)}})

RECURSIVE ImportFees_Stop(_, _, _)
\* The loop over the sub-records with break in the place of continue
ImportFees_Stop(acc, dir, list) ==
  IF list = <<>> \/ ~acc.ok THEN acc
  ELSE IF FeeType(Head(list)) = 0 THEN acc
  ELSE The({ImportFees_Stop(r, dir, Tail(list)) :
            r \in {FeeUpdateOrCreate(acc.fees, dir, FeeType(Head(list)),
                                     FeeDefaults(Head(list)))}})

RECURSIVE ImportFees(_, _, _)
\* for fee in d.get("tuition_fees", []): a sub-record whose education type
\* does not resolve is passed over.
ImportFees(acc, dir, list) ==
  IF list = <<>> \/ ~acc.ok THEN acc
  ELSE IF FeeType(Head(list)) = 0 THEN ImportFees(acc, dir, Tail(list))
  ELSE The({ImportFees(r, dir, Tail(list)) :
            r \in {FeeUpdateOrCreate(acc.fees, dir, FeeType(Head(list)),
                                     FeeDefaults(Head(list)))}})

\* if not uni_id: ...; University.objects.get(id=uni_id) raising
\* DoesNotExist
MissingUniversity(table, uni_id) == uni_id = 0 \/ uni_id \notin DOMAIN table

\* The loop body for a record whose university exists, on st = [dirs, fees].
ImportDirectionOf(st, d, uni_slug) ==
  The({IF ~uc.ok
       THEN [ok |-> FALSE, kind |-> "failed", dir |-> 0,
             dirs |-> st.dirs, fees |-> st.fees]
       ELSE The({[ok |-> fs.ok,
                  kind |-> IF uc.created THEN "created" ELSE "updated",
                  dir |-> uc.dir,
                  dirs |-> SetDirLinks(uc.dirs, uc.dir, d),
                  fees |-> fs.fees] :
                 fs \in {ImportFees([ok |-> TRUE, fees |-> st.fees], uc.dir,
                                    d.tuition_fees)}}) :
       uc \in {DirUpdateOrCreate(st.dirs, d.university_id, uni_slug,
                                 DirDefaults(uni_slug, d))}})

\* One iteration of the loop of handle on st = [dirs, fees], with the
\* University table as it is.
ImportDirection(st, d) ==
  IF MissingUniversity(unis, d.university_id)
  THEN [ok |-> TRUE, kind |-> "skipped", dir |-> 0,
        dirs |-> st.dirs, fees |-> st.fees]
  ELSE ImportDirectionOf(st, d, unis[d.university_id].slug)

\* skipped += 1 (and the loop goes on to the next record)
CountSkipped_Not(r) == [r EXCEPT !.n = @ + 1]

CountSkipped(r) == [r EXCEPT !.n = @ + 1, !.skipped = @ + 1]

\* created += int(created_flag); updated += int(not created_flag)
CountWritten(r, kind) ==
  [r EXCEPT !.n = @ + 1,
            !.created = @ + (IF kind = "created" THEN 1 ELSE 0),
            !.updated = @ + (IF kind = "updated" THEN 1 ELSE 0)]

\* handle of import_directions is entered: transaction.atomic begins.
BeginDirections ==
  /\ run.cmd = "none"
  /\ run' = [NoRun EXCEPT !.cmd = "import_directions", !.before = Tables]
  /\ last' = [op |-> "begin", cmd |-> "import_directions"]
  /\ UNCHANGED <<stores, resp>>

\* One record of the feed is processed.
DirectionRecord(d) ==
  /\ run.cmd = "import_directions"
  /\ run.n < MaxFeed
  /\ \E r \in {ImportDirection([dirs |-> dirs, fees |-> fees], d)} :
       /\ r.ok
       /\ dirs' = r.dirs
       /\ fees' = r.fees
       /\ run' = IF r.kind = "skipped" THEN CountSkipped(run)
                 ELSE CountWritten(run, r.kind)
       /\ last' = [op |-> "direction", d |-> d, kind |-> r.kind,
                   dir |-> r.dir, dirs |-> dirs, fees |-> fees,
                   skipped |-> run.skipped]
  /\ UNCHANGED <<tax, unis, gallery, media, resp>>

\* A record raises an error nothing handles (IntegrityError of a
\* direction_slug that a row holds, MultipleObjectsReturned): handle ends
\* with the error and transaction.atomic rolls back.
DirectionRecordFails(d) ==
  /\ run.cmd = "import_directions"
  /\ run.n < MaxFeed
  /\ \E r \in {ImportDirection([dirs |-> dirs, fees |-> fees], d)} : ~r.ok
  /\ dirs' = Rollback(dirs, run.before.dirs)
  /\ fees' = Rollback(fees, run.before.fees)
  /\ run' = NoRun
  /\ last' = [op |-> "failed", cmd |-> "import_directions",
              before |-> run.before, dirty |-> Tables # run.before,
              d |-> d, dirs |-> dirs]
  /\ UNCHANGED <<tax, unis, gallery, media, resp>>

\* The end of handle: the transaction commits and the counts are printed.
EndDirections ==
  /\ run.cmd = "import_directions"
  /\ run' = NoRun
  /\ last' = [op |-> "report", cmd |-> "import_directions",
              n |-> run.n, created |-> run.created,
              updated |-> run.updated, skipped |-> run.skipped]
  /\ UNCHANGED <<stores, resp>>

\* A direction record with every optional key missing.  `has` names the
\* relation arrays the record carries; d.get(key, []) reads a missing one
\* as the empty list.
BaseDir ==
  [university_id |-> 1, direction_name_uz |-> "Math",
   direction_name_ru |-> "", direction_slug |-> "",
   direction_description_uz |-> "", is_open_for_admission |-> "None",
   has_stipend |-> "None",
   category_id |-> 0, education_types |-> <<>>,
   education_languages |-> <<>>, degrees |-> <<>>, tuition_fees |-> <<>>,
   has |-> {}]

\* A tuition-fee sub-record with every key missing.
BaseFee ==
  [education_type_name_uz |-> "", education_type_name_ru |-> "",
   education_type_name_en |-> "", education_type_id |-> 0,
   academic_year |-> "", local_tuition_fee |-> NULL,
   international_tuition_fee |-> NULL]

\* Sub-records for the type A by name and by id with different values, for
\* the type B, and one whose type does not resolve.
FeeA1 ==
  [BaseFee EXCEPT !.education_type_name_uz = "A", !.academic_year = "2024",
                  !.local_tuition_fee = 1, !.international_tuition_fee = 3]

FeeA2 ==
  [BaseFee EXCEPT !.education_type_name_ru = "Z", !.education_type_id = 1,
                  !.academic_year = "2025",
                  !.local_tuition_fee = 2, !.international_tuition_fee = 4]

FeeB ==
  [BaseFee EXCEPT !.education_type_id = 2, !.academic_year = "2024",
                  !.local_tuition_fee = 5]

FeeNone == [BaseFee EXCEPT !.education_type_name_uz = "Z"]

FeeLists ==
  {<<>>, <<FeeA1>>, <<FeeA1, FeeA2>>, <<FeeA2, FeeA1>>,
   <<FeeA1, FeeNone, FeeB>>}

\* The records of the feeds of SpecDirections: two directions of university
\* 1 with every fee list, and records with no university_id (0) or with
\* the id of no university (3).
DirFeedRecs ==
  {[BaseDir EXCEPT !.direction_name_uz = n, !.tuition_fees = f] :
     n \in {"Math", "Law"}, f \in FeeLists}
  \cup
  {[BaseDir EXCEPT !.university_id = i, !.tuition_fees = <<FeeA1>>] :
     i \in {0, 3}}

\* The store import_directions meets: the taxonomy, and the one university
\* an import_universities run has left.
InitDirections ==
  /\ tax = Taxonomy
  /\ unis = RunUniversities(NoStores, <<BaseUni>>, {}).unis
  /\ gallery = {}
  /\ media = {}
  /\ dirs = NoDirs
  /\ fees = {}
  /\ run = NoRun
  /\ last = NoEvent
  /\ resp = NoEvent

NextDirections ==
  \/ BeginDirections
  \/ \E d \in DirFeedRecs : DirectionRecord(d)
  \/ EndDirections

SpecDirections == InitDirections /\ [][NextDirections]_vars

(***************************************************************************)
(* SpecSlug: University and Direction rows saved with an empty slug, as    *)
(* the admin site or any other caller of save() does.                      *)
(***************************************************************************)
\* University(full_name=name) before its first save.
NewUniversity(id, name) ==
  [id |-> id, full_name |-> name, slug |-> "", logo |-> "",
   license_file |-> "", description |-> "",
   minimal_tuition_fee |-> NULL, maximal_tuition_fee |-> NULL,
   is_open_for_admission |-> FALSE, has_grant |-> FALSE,
   institution_category |-> 0, location |-> 0]

\* Direction(university=uni, direction_name=name) before its first save.
NewDirection(id, uni, name) ==
  [id |-> id, university |-> uni, direction_name |-> name,
   direction_slug |-> "", direction_description |-> "",
   is_open_for_admission |-> FALSE, has_stipend |-> FALSE,
   category |-> 0]

SlugUniNames ==
  {"Tashkent State University", "Tashkent State University 1", "!!!"}

SlugDirNames == {"Math", "MATH"}

\* The rows of both tables.
RowCount == Cardinality(DOMAIN unis) + Cardinality(DOMAIN dirs)

\* A new University is saved, under an id no row has.
SaveNewUniversity(name) ==
  /\ RowCount < MaxRows
  /\ \E r \in {SaveUniversity(unis, NewUniversity(NextKey(unis), name),
                              TRUE)} :
       /\ unis' = r.unis
       /\ last' = [op |-> IF r.ok THEN "save" ELSE "rejected",
                   model |-> "University", id |-> NextKey(unis),
                   base |-> Slugify(name), unis |-> unis, dirs |-> dirs]
  /\ UNCHANGED <<tax, gallery, media, dirs, fees, run, resp>>

\* A University whose slug is (still) empty is saved again.
SaveUniversityAgain(id) ==
  /\ id \in DOMAIN unis
  /\ unis[id].slug = ""
  /\ \E r \in {SaveUniversity(unis, Instance(unis, id), FALSE)} :
       /\ unis' = r.unis
       /\ last' = [op |-> IF r.ok THEN "save" ELSE "rejected",
                   model |-> "University", id |-> id,
                   base |-> Slugify(unis[id].full_name),
                   unis |-> unis, dirs |-> dirs]
  /\ UNCHANGED <<tax, gallery, media, dirs, fees, run, resp>>

\* A new Direction of a University is saved.
SaveNewDirection(uni, name) ==
  /\ uni \in DOMAIN unis
  /\ RowCount < MaxRows
  /\ \E r \in {SaveDirection(dirs, NewDirection(NextKey(dirs), uni, name),
                             unis[uni].slug)} :
       /\ dirs' = r.dirs
       /\ last' = [op |-> IF r.ok THEN "save" ELSE "rejected",
                   model |-> "Direction", id |-> NextKey(dirs),
                   base |-> SlugifyJoined(unis[uni].slug, name),
                   unis |-> unis, dirs |-> dirs]
  /\ UNCHANGED <<tax, unis, gallery, media, fees, run, resp>>

InitSlug ==
  /\ tax = Taxonomy
  /\ unis = NoUnis
  /\ gallery = {}
  /\ media = {}
  /\ dirs = NoDirs
  /\ fees = {}
  /\ run = NoRun
  /\ last = NoEvent
  /\ resp = NoEvent

NextSlug ==
  \/ \E name \in SlugUniNames : SaveNewUniversity(name)
  \/ \E id \in 1..MaxRows : SaveUniversityAgain(id)
  \/ \E uni \in 1..MaxRows, name \in SlugDirNames :
       SaveNewDirection(uni, name)

SpecSlug == InitSlug /\ [][NextSlug]_vars

(***************************************************************************)
(* SpecRuns: runs of the three import commands, one after another, on      *)
(* feeds some of whose records raise an error nothing handles.             *)
(***************************************************************************)
\* Values of a taxonomy item: two ids with one name (the second write is
\* rejected and caught), and a value without an id.
RunTaxRecs ==
  {[id |-> 1, name |-> "A"], [id |-> 2, name |-> "A"],
   [id |-> 0, name |-> "B"]}

\* University records: two names with one slug.
RunUniRecs == {BaseUni, [BaseUni EXCEPT !.id = 2, !.full_name_uz = "Tsu!"]}

\* Direction records of university 1: two names with one slug.
RunDirRecs ==
  {BaseDir, [BaseDir EXCEPT !.direction_name_uz = "MATH"]}

InitRuns ==
  /\ tax = [k \in TableKeys |-> EmptyTable]
  /\ unis = NoUnis
  /\ gallery = {}
  /\ media = {}
  /\ dirs = NoDirs
  /\ fees = {}
  /\ run = NoRun
  /\ last = NoEvent
  /\ resp = NoEvent

NextRuns ==
  \/ BeginFilters
  \/ FilterItemOpen("location")
  \/ FilterItemSkip
  \/ \E rec \in RunTaxRecs : FilterUpsert(rec)
  \/ \E rec \in RunTaxRecs : FilterUpsertFails(rec)
  \/ FilterItemClose
  \/ EndFilters
  \/ BeginUniversities
  \/ \E u \in RunUniRecs : UniversityRecord(u, {})
  \/ \E u \in RunUniRecs : UniversityRecordFails(u, {})
  \/ EndUniversities
  \/ BeginDirections
  \/ \E d \in RunDirRecs : DirectionRecord(d)
  \/ \E d \in RunDirRecs : DirectionRecordFails(d)
  \/ EndDirections

SpecRuns == InitRuns /\ [][NextRuns]_vars

(***************************************************************************)
(* SpecMedia: runs of import_universities on records that carry a logo, a  *)
(* licence or a gallery image, with downloads that succeed or fail.        *)
(***************************************************************************)
\* A first import of two universities with a logo of one file name; later
\* records of the same universities with another logo path, with new
\* scalar values, with a gallery image; a record that gives the name of
\* university 1 the id of university 2.
MediaUniRecs ==
  {[BaseUni EXCEPT !.logo = "logo.png", !.license_file = "lic.pdf"],
   [BaseUni EXCEPT !.id = 2, !.full_name_uz = "Law", !.logo = "logo.png"],
   [BaseUni EXCEPT !.logo = "new.png", !.description_uz = "d",
                   !.has = {"gallery"}, !.gallery = <<"g/a.jpg">>],
   [BaseUni EXCEPT !.id = 2, !.slug = "alt", !.logo = "new.png"]}

\* Every download succeeds, or every download fails.
MediaPaths == {"logo.png", "new.png", "lic.pdf", "g/a.jpg"}

InitMedia ==
  /\ tax = Taxonomy
  /\ unis = NoUnis
  /\ gallery = {}
  /\ media = {}
  /\ dirs = NoDirs
  /\ fees = {}
  /\ run = NoRun
  /\ last = NoEvent
  /\ resp = NoEvent

NextMedia ==
  \/ BeginUniversities
  \/ \E u \in MediaUniRecs, fetched \in {{}, MediaPaths} :
       UniversityRecord(u, fetched)
  \/ \E u \in MediaUniRecs : UniversityRecordFails(u, {})
  \/ EndUniversities

SpecMedia == InitMedia /\ [][NextMedia]_vars

(***************************************************************************)
(* The listings (views.py).  A request is the record of its GET            *)
(* parameters: a multi-valued parameter is the sequence of its values, a   *)
(* single-valued one its value, "" when absent.  A queryset is the         *)
(* sequence of the keys of the rows the query yields: a filter through a   *)
(* many-to-many relation joins the link table, so an entity comes once per *)
(* link that matches, until distinct() removes the repetitions.            *)
(***************************************************************************)
\* str.isdigit() on the values of the model: true of the superscript two
IsDigit(v) == v \in {"1", "2", "5", "²"}

\* int(v) succeeds (the conversion of a value compared with a number
\* column); of the superscript two it raises ValueError
IntOk(v) == v \in {"1", "2", "5"}

ToInt(v) == CASE v = "1" -> 1 [] v = "2" -> 2 [] v = "5" -> 5

\* text.lower() contains term.lower() (icontains), on the texts of the model
IContains(text, term) ==
  \/ term = "tsu" /\ text = "TSU"
  \/ term = "a" /\ text \in {"A", "Law", "Math"}
  \/ term = "law" /\ text = "Law"

\* The place of a text in the order of the store's collation.
TextRank(text) ==
  CASE text = "" -> 0 [] text = "A" -> 1 [] text = "B" -> 2
    [] text = "Law" -> 3 [] text = "Math" -> 4 [] text = "TSU" -> 5
    [] OTHER -> 6

\* The name of the row `id` of a taxonomy table, "" for no row (a null
\* foreign key joins no row and its name matches nothing).
NameOf(table, id) == IF id \in DOMAIN table THEN table[id] ELSE ""

\* The numbers of the digit values of a multi-valued parameter.
DigitIds(values) ==
  {ToInt(v) : v \in {w \in Range(values) : IsDigit(w) /\ IntOk(w)}}

\* for v in values: if v.isdigit(): query |= Q(...): the Q is not empty
HasDigit(values) == \E v \in Range(values) : IsDigit(v)

\* A value that passes isdigit() and that the column cannot take.
BadNumber(v) == IsDigit(v) /\ ~IntOk(v)

\* institution_category: Q(institution_category_id=v) for a digit value,
\* Q(institution_category__name__icontains=v) for another
CategoryFilter(u, values) ==
  values # <<>> =>
    \E v \in Range(values) :
      IF IsDigit(v) THEN IntOk(v) /\ u.institution_category = ToInt(v)
      ELSE IContains(NameOf(tax["institution_category_id"],
                            u.institution_category), v)

\* location: Q(location_id=v) for the digit values only
LocationFilter(u, values) ==
  HasDigit(values) => u.location \in DigitIds(values)

\* A join that keeps an entity only when it is linked to every id named
JoinCount_All(links, applies, ids) ==
  IF applies THEN (IF ids \subseteq links THEN 1 ELSE 0) ELSE 1

\* The rows of the join of one many-to-many filter for an entity with the
\* links `links`: one per link among `ids`; one when the filter does not
\* apply.
JoinCount(links, applies, ids) ==
  IF applies THEN Cardinality(links \cap ids) ELSE 1

\* min_price and max_price
PriceFilter(u, min_price, max_price) ==
  /\ (min_price # "" /\ IsDigit(min_price)) =>
       (u.minimal_tuition_fee # NULL /\ u.minimal_tuition_fee >= ToInt(min_price))
  /\ (max_price # "" /\ IsDigit(max_price)) =>
       (u.maximal_tuition_fee # NULL /\ u.maximal_tuition_fee <= ToInt(max_price))

\* admission_status == 'open'
AdmissionFilter(u, admission_status) ==
  admission_status = "open" => u.is_open_for_admission

\* search_query.split() on the queries of the model
SearchTerms(search) ==
  CASE search = "" -> {}
    [] search = "tsu a" -> {"tsu", "a"}
    [] OTHER -> {search}

\* search: any term in the name, the description, the name of the location
\* or of the institution category
UniSearchFilter(u, search) ==
  search # "" =>
    \E term \in SearchTerms(search) :
      \/ IContains(u.full_name, term)
      \/ IContains(u.description, term)
      \/ IContains(NameOf(tax["location"], u.location), term)
      \/ IContains(NameOf(tax["institution_category_id"],
                          u.institution_category), term)

\* The filters of UniversityListView.get_queryset on one row.
UniFilters(u, q) ==
  /\ CategoryFilter(u, q.institution_category)
  /\ LocationFilter(u, q.location)
  /\ PriceFilter(u, q.min_price, q.max_price)
  /\ AdmissionFilter(u, q.admission_status)
  /\ UniSearchFilter(u, q.search)

\* How many rows the joins of the three many-to-many filters give a row.
UniJoinCount(u, q) ==
  JoinCount(u.education_types, HasDigit(q.education_type),
            DigitIds(q.education_type))
  * JoinCount(u.education_languages, HasDigit(q.education_language),
              DigitIds(q.education_language))
  * JoinCount(u.degrees, HasDigit(q.degree), DigitIds(q.degree))

\* A filter raises: a digit value the id column cannot take, or int() of
\* such a price.
UniQueryFails(q) ==
  \/ \E v \in Range(q.institution_category) \cup Range(q.location)
            \cup Range(q.education_type) \cup Range(q.education_language)
            \cup Range(q.degree) : BadNumber(v)
  \/ BadNumber(q.min_price)
  \/ BadNumber(q.max_price)

\* a sorts before b among the values of a number column; where a null
\* sorts is the store's choice (null_high: after every number).
NumberBefore(a, b, null_high) ==
  IF a = NULL THEN b # NULL /\ ~null_high
  ELSE IF b = NULL THEN null_high
  ELSE a < b

\* The same for the name of a row of a taxonomy table, null for no row.
NameBefore(table, a, b, null_high) ==
  IF a \notin DOMAIN table THEN b \in DOMAIN table /\ ~null_high
  ELSE IF b \notin DOMAIN table THEN null_high
  ELSE TextRank(table[a]) < TextRank(table[b])

\* order_by of the university listings: row a must come before row b.
UniSortsBefore(a, b, sort, null_high) ==
  CASE sort = "price_low" ->
         NumberBefore(a.minimal_tuition_fee, b.minimal_tuition_fee, null_high)
    [] sort = "price_high" ->
         NumberBefore(b.minimal_tuition_fee, a.minimal_tuition_fee, null_high)
    [] sort = "location" ->
         \/ NameBefore(tax["location"], a.location, b.location, null_high)
         \/ /\ ~NameBefore(tax["location"], b.location, a.location, null_high)
            /\ TextRank(a.full_name) < TextRank(b.full_name)
    [] OTHER -> TextRank(a.full_name) < TextRank(b.full_name)

\* The sequences that hold each element of S once.
Perms(S) ==
  {p \in [1..Cardinality(S) -> S] :
     \A i, j \in 1..Cardinality(S) : p[i] = p[j] => i = j}

RECURSIVE Repeated(_, _)
\* The joined rows in the order `order` of the entities: each entity as
\* many times as count says.
Repeated(order, count) ==
  IF order = <<>> THEN <<>>
  ELSE [i \in 1..count[Head(order)] |-> Head(order)]
       \o Repeated(Tail(order), count)

\* queryset.distinct(), leaving the rows as they are
Distinct_Not(rows) == rows

RECURSIVE Distinct(_)
\* queryset.distinct(): the rows selected are the columns of the entity and
\* the columns it is ordered by, all of one row of the entity's table or of
\* a row it refers to, so the rows of one entity are equal and one stays.
Distinct(rows) ==
  IF rows = <<>> THEN <<>>
  ELSE <<Head(rows)>>
       \o Distinct(SelectSeq(Tail(rows), LAMBDA x : x # Head(rows)))

\* The universities the filters keep, and the orders order_by may give them.
UniSelected(q) ==
  {i \in DOMAIN unis : UniFilters(unis[i], q) /\ UniJoinCount(unis[i], q) > 0}

UniOrders(ids, sort, null_high) ==
  {p \in Perms(ids) :
     \A i, j \in DOMAIN p :
       i < j => ~UniSortsBefore(unis[p[j]], unis[p[i]], sort, null_high)}

\* The queryset of UniversityListView.get_queryset and university_filter_api
\* for the order `order` of the selected universities.
UniQuerySet(q, order) ==
  Distinct(Repeated(order, [i \in DOMAIN unis |-> UniJoinCount(unis[i], q)]))

\* The numbers of the values of a parameter of the direction listing, which
\* passes every value to the id column.
AllIds(values) == {ToInt(v) : v \in Range(values)}

\* A value the id column cannot take raises ValueError.
DirQueryFails(q) ==
  \E v \in Range(q.university) \cup Range(q.category)
         \cup Range(q.education_type) \cup Range(q.education_language)
         \cup Range(q.degree) : ~IntOk(v)

\* The filters of DirectionListView.get_queryset on one row.
DirFilters(d, q) ==
  /\ q.university # <<>> => d.university \in AllIds(q.university)
  /\ q.category # <<>> => d.category \in AllIds(q.category)
  /\ q.admission_status = "open" => d.is_open_for_admission
  /\ q.search # "" =>
       \/ IContains(d.direction_name, q.search)
       \/ IContains(d.direction_description, q.search)
       \/ IContains(unis[d.university].full_name, q.search)

DirJoinCount(d, q) ==
  JoinCount(d.education_types, q.education_type # <<>>,
            AllIds(q.education_type))
  * JoinCount(d.education_languages, q.education_language # <<>>,
              AllIds(q.education_language))
  * JoinCount(d.degrees, q.degree # <<>>, AllIds(q.degree))

\* Meta.ordering of Direction: university__full_name, direction_name
DirSortsBefore(a, b) ==
  \/ TextRank(unis[a.university].full_name)
       < TextRank(unis[b.university].full_name)
  \/ /\ unis[a.university].full_name = unis[b.university].full_name
     /\ TextRank(a.direction_name) < TextRank(b.direction_name)

DirSelected(q) ==
  {i \in DOMAIN dirs : DirFilters(dirs[i], q) /\ DirJoinCount(dirs[i], q) > 0}

DirOrders(ids) ==
  {p \in Perms(ids) :
     \A i, j \in DOMAIN p : i < j => ~DirSortsBefore(dirs[p[j]], dirs[p[i]])}

DirQuerySet(q, order) ==
  Distinct(Repeated(order, [i \in DOMAIN dirs |-> DirJoinCount(dirs[i], q)]))

\* paginate_by of UniversityListView, and Paginator(queryset, 12)
UniPageSize == 12

\* paginate_by of DirectionListView, and Paginator(queryset, 10)
DirPageSize == 10

\* Paginator.num_pages: an empty queryset has one (empty) page.
NumPages(count, per_page) ==
  IF count = 0 THEN 1 ELSE (count + per_page - 1) \div per_page

\* Paginator.page(number) returns a page: validate_number takes the number
\* (int() succeeds, the number is at least 1 and at most num_pages);
\* otherwise it raises PageNotAnInteger or EmptyPage.
PageValid(number, count, per_page) ==
  /\ IntOk(number)
  /\ ToInt(number) >= 1
  /\ ToInt(number) <= NumPages(count, per_page)

\* Page.object_list: object_list[bottom:top]
PageRows(rows, n, per_page) ==
  SubSeq(rows, (n - 1) * per_page + 1, Min({n * per_page, Len(rows)}))

\* The response that carries the page n of the queryset `rows`.
PageResponse(view, rows, n, per_page) ==
  [view |-> view, status |-> "200", rows |-> rows,
   page |-> PageRows(rows, n, per_page), number |-> n]

\* The response to a request that raised.
ErrorResponse(view, status) ==
  [view |-> view, status |-> status, rows |-> <<>>, page |-> <<>>,
   number |-> 0]

\* MultipleObjectMixin.paginate_queryset (ListView): the page parameter or
\* 1; "last" is the last page; a value int() does not take, or a number
\* Paginator.page rejects, raises Http404.
ListPaginate(view, rows, page, per_page) ==
  IF page = "" THEN PageResponse(view, rows, 1, per_page)
  ELSE IF page = "last"
  THEN PageResponse(view, rows, NumPages(Len(rows), per_page), per_page)
  ELSE IF PageValid(page, Len(rows), per_page)
  THEN PageResponse(view, rows, ToInt(page), per_page)
  ELSE ErrorResponse(view, "404")

\* page_number = request.GET.get('page', 1); paginator.page(page_number):
\* PageNotAnInteger and EmptyPage are caught by the except of the view and
\* answered with success = False and status 500.
ApiPaginate(view, rows, page, per_page) ==
  IF page = "" THEN PageResponse(view, rows, 1, per_page)
  ELSE IF PageValid(page, Len(rows), per_page)
  THEN PageResponse(view, rows, ToInt(page), per_page)
  ELSE ErrorResponse(view, "500")

\* GET /universities/ : the page of UniversityListView.  An error raised by
\* the query is not handled and the response is the server's error page.
UniversityListView(q) ==
  /\ IF UniQueryFails(q)
     THEN resp' = ErrorResponse("UniversityListView", "500")
     ELSE \E null_high \in BOOLEAN :
            \E order \in UniOrders(UniSelected(q), q.sort, null_high) :
              resp' = ListPaginate("UniversityListView",
                                   UniQuerySet(q, order), q.page, UniPageSize)
  /\ last' = [op |-> "request", q |-> q]
  /\ UNCHANGED <<stores, run>>

\* GET of university_filter_api: the same query; any error is caught and
\* answered with success = False and status 500.
UniversityFilterApi(q) ==
  /\ IF UniQueryFails(q)
     THEN resp' = ErrorResponse("university_filter_api", "500")
     ELSE \E null_high \in BOOLEAN :
            \E order \in UniOrders(UniSelected(q), q.sort, null_high) :
              resp' = ApiPaginate("university_filter_api",
                                  UniQuerySet(q, order), q.page, UniPageSize)
  /\ last' = [op |-> "request", q |-> q]
  /\ UNCHANGED <<stores, run>>

\* GET /directions/ : the page of DirectionListView.
DirectionListView(q) ==
  /\ IF DirQueryFails(q)
     THEN resp' = ErrorResponse("DirectionListView", "500")
     ELSE \E order \in DirOrders(DirSelected(q)) :
            resp' = ListPaginate("DirectionListView", DirQuerySet(q, order),
                                 q.page, DirPageSize)
  /\ last' = [op |-> "request", q |-> q]
  /\ UNCHANGED <<stores, run>>

\* direction_filter_api: a value of a multi-valued parameter is used only
\* when isdigit() is true of it, and one the id column cannot take raises.
DirApiQueryFails(q) ==
  \E v \in Range(q.university) \cup Range(q.category)
         \cup Range(q.education_type) \cup Range(q.education_language)
         \cup Range(q.degree) : BadNumber(v)

\* The filters of direction_filter_api on one row; the search also looks
\* at the name of the category.
DirApiFilters(d, q) ==
  /\ HasDigit(q.university) => d.university \in DigitIds(q.university)
  /\ HasDigit(q.category) => d.category \in DigitIds(q.category)
  /\ q.admission_status = "open" => d.is_open_for_admission
  /\ q.search # "" =>
       \E term \in SearchTerms(q.search) :
         \/ IContains(d.direction_name, term)
         \/ IContains(d.direction_description, term)
         \/ IContains(unis[d.university].full_name, term)
         \/ IContains(NameOf(tax["category"], d.category), term)

DirApiJoinCount(d, q) ==
  JoinCount(d.education_types, HasDigit(q.education_type),
            DigitIds(q.education_type))
  * JoinCount(d.education_languages, HasDigit(q.education_language),
              DigitIds(q.education_language))
  * JoinCount(d.degrees, HasDigit(q.degree), DigitIds(q.degree))

DirApiSelected(q) ==
  {i \in DOMAIN dirs :
     DirApiFilters(dirs[i], q) /\ DirApiJoinCount(dirs[i], q) > 0}

\* GET of direction_filter_api: distinct(), then
\* order_by('university__full_name', 'direction_name'), then the page.
DirectionFilterApi(q) ==
  /\ IF DirApiQueryFails(q)
     THEN resp' = ErrorResponse("direction_filter_api", "500")
     ELSE \E order \in DirOrders(DirApiSelected(q)) :
            resp' = ApiPaginate("direction_filter_api",
                      Distinct(Repeated(order,
                        [i \in DOMAIN dirs |-> DirApiJoinCount(dirs[i], q)])),
                      q.page, DirPageSize)
  /\ last' = [op |-> "request", q |-> q]
  /\ UNCHANGED <<stores, run>>

(***************************************************************************)
(* SpecListing: requests to the listings over a store the imports filled.  *)
(***************************************************************************)
\* An item of a relation array of a university record, naming a row by id.
UniItem(id) ==
  [id |-> id, name_uz |-> "", name_ru |-> "", name_en |-> "", name |-> ""]

\* Three universities: one with two education types, two degrees, a
\* location, a category, the grant and both fees; one with one education
\* type, one degree and the same fees; one with no link and no fee.
ListingUnis ==
  <<[BaseUni EXCEPT !.id = 1, !.full_name_uz = "TSU",
       !.minimal_tuition_fee = 1, !.maximal_tuition_fee = 5,
       !.is_open_for_admission = "true", !.has_grant = "true",
       !.institution_category_id = 1, !.location_uz = "A",
       !.has = {"education_type", "education_language", "degree"},
       !.education_type = <<UniItem(1), UniItem(2)>>,
       !.education_language = <<UniItem(1)>>,
       !.degree = <<UniItem(1), UniItem(2)>>],
    [BaseUni EXCEPT !.id = 2, !.full_name_uz = "Law",
       !.minimal_tuition_fee = 1, !.maximal_tuition_fee = 5,
       !.has = {"education_type", "degree"},
       !.education_type = <<UniItem(2)>>,
       !.degree = <<UniItem(2)>>],
    [BaseUni EXCEPT !.id = 3, !.full_name_uz = "Math"]>>

DirTypeItem(id) ==
  [education_type_id |-> id, education_type_name_uz |-> "",
   education_type_name_ru |-> "", education_type_name_en |-> ""]

DirDegreeItem(id) ==
  [degree_id |-> id, degree_name_uz |-> "", degree_name_ru |-> "",
   degree_name_en |-> ""]

\* Three directions: one with two education types and two degrees, one
\* with one education type, one of another university with no link.
ListingDirs ==
  <<[BaseDir EXCEPT !.direction_name_uz = "Math",
       !.is_open_for_admission = "true", !.has_stipend = "true",
       !.category_id = 1,
       !.education_types = <<DirTypeItem(1), DirTypeItem(2)>>,
       !.degrees = <<DirDegreeItem(1), DirDegreeItem(2)>>],
    [BaseDir EXCEPT !.direction_name_uz = "Law",
       !.education_types = <<DirTypeItem(2)>>],
    [BaseDir EXCEPT !.university_id = 2, !.direction_name_uz = "Math"]>>

RECURSIVE HandleDirections(_, _)
\* The loop of handle of import_directions over a feed no record of which
\* fails, on st = [dirs, fees].
HandleDirections(st, feed) ==
  IF feed = <<>> THEN st
  ELSE The({HandleDirections([dirs |-> r.dirs, fees |-> r.fees], Tail(feed)) :
            r \in {ImportDirection(st, Head(feed))}})

\* The parameters of a request to a university listing, all absent.
NoUniQuery ==
  [institution_category |-> <<>>, location |-> <<>>, education_type |-> <<>>,
   education_language |-> <<>>, degree |-> <<>>, min_price |-> "",
   max_price |-> "", admission_status |-> "", search |-> "", sort |-> "",
   page |-> "", has_grant |-> ""]

\* Requests that vary the many-to-many parameters and the sort, the search
\* and the language, the prices, the single-valued filters, a flag the
\* view reads (admission_status) and one it does not (has_grant), and the
\* page.
UniRequests ==
  {[NoUniQuery EXCEPT !.education_type = t, !.degree = d, !.sort = o] :
     t \in {<<>>, <<"1", "2">>, <<"a">>, <<"²">>},
     d \in {<<>>, <<"1", "2">>},
     o \in {"", "name", "price_low", "price_high", "location", "x"}}
  \cup
  {[NoUniQuery EXCEPT !.education_type = t, !.education_language = l,
                      !.search = s] :
     t \in {<<>>, <<"2">>}, l \in {<<>>, <<"1">>}, s \in {"", "a", "tsu a"}}
  \cup
  {[NoUniQuery EXCEPT !.min_price = lo, !.max_price = hi,
                      !.education_type = t] :
     lo \in {"", "1", "5", "a", "²"}, hi \in {"", "2", "5", "a", "²"},
     t \in {<<>>, <<"1", "2">>}}
  \cup
  {[NoUniQuery EXCEPT !.institution_category = c, !.location = p,
                      !.admission_status = a] :
     c \in {<<>>, <<"1">>, <<"a">>}, p \in {<<>>, <<"1">>, <<"a">>},
     a \in {"", "open"}}
  \cup
  {[NoUniQuery EXCEPT !.has_grant = g, !.admission_status = a] :
     g \in {"", "true", "false"}, a \in {"", "open", "closed"}}
  \cup
  {[NoUniQuery EXCEPT !.page = p, !.education_type = t] :
     p \in {"1", "2", "a", "last"}, t \in {<<>>, <<"1", "2">>}}

\* The requests to the direction listing.
DirRequests ==
  [university : {<<>>, <<"1">>},
   category : {<<>>, <<"1">>},
   education_type : {<<>>, <<"1", "2">>, <<"a">>},
   education_language : {<<>>},
   degree : {<<>>, <<"1", "2">>},
   admission_status : {"", "open"},
   search : {"", "a"},
   page : {""},
   has_stipend : {""}]
  \cup
  [university : {<<>>, <<"a">>, <<"²">>},
   category : {<<>>},
   education_type : {<<>>},
   education_language : {<<>>},
   degree : {<<>>, <<"1", "2">>},
   admission_status : {""},
   search : {""},
   page : {"", "1", "2", "a", "last"},
   has_stipend : {""}]
  \cup
  [university : {<<>>},
   category : {<<>>},
   education_type : {<<>>},
   education_language : {<<>>},
   degree : {<<>>},
   admission_status : {"", "open", "closed"},
   search : {""},
   page : {""},
   has_stipend : {"", "true", "false"}]
  \cup
  [university : {<<>>},
   category : {<<>>, <<"1">>},
   education_type : {<<>>},
   education_language : {<<>>},
   degree : {<<>>},
   admission_status : {""},
   search : {"tsu a"},
   page : {""},
   has_stipend : {""}]

\* The store after import_universities and import_directions on a prefix of
\* the feeds.
InitListing ==
  /\ tax = Taxonomy
  /\ \E n \in 1..Len(ListingUnis) :
       unis = RunUniversities(NoStores, SubSeq(ListingUnis, 1, n), {}).unis
  /\ gallery = {}
  /\ media = {}
  /\ \E r \in {HandleDirections([dirs |-> NoDirs, fees |-> {}], ListingDirs)} :
       dirs = r.dirs /\ fees = r.fees
  /\ run = NoRun
  /\ last = NoEvent
  /\ resp = NoEvent

NextListing ==
  \/ \E q \in UniRequests : UniversityListView(q)
  \/ \E q \in UniRequests : UniversityFilterApi(q)
  \/ \E q \in DirRequests : DirectionListView(q)
  \/ \E q \in DirRequests : DirectionFilterApi(q)

SpecListing == InitListing /\ [][NextListing]_vars

(***************************************************************************)
(* SpecLinks: imports of universities and of directions whose records      *)
(* carry relation arrays, or none, over the taxonomy and two universities. *)
(***************************************************************************)
\* Items of a relation array of a university record: the first name is of
\* no row and the second of row 2 (with the id of row 1); two names of two
\* rows; an id alone; a name of no row with the id of no row; the name of
\* row 2 under the key "name".
LinkUniItems ==
  <<[UniItem(1) EXCEPT !.name_uz = "Z", !.name_ru = "B"],
    [UniItem(0) EXCEPT !.name_uz = "A", !.name_ru = "B"],
    UniItem(2),
    [UniItem(3) EXCEPT !.name_uz = "Z"],
    [UniItem(0) EXCEPT !.name = "B"]>>

\* The same for the education types of a direction record.
LinkDirItems ==
  <<[DirTypeItem(1) EXCEPT !.education_type_name_uz = "Z",
                           !.education_type_name_ru = "B"],
    [DirTypeItem(0) EXCEPT !.education_type_name_uz = "A",
                           !.education_type_name_en = "B"],
    DirTypeItem(2),
    [DirTypeItem(3) EXCEPT !.education_type_name_uz = "Z"]>>

\* The arrays of the records: empty, of one item, and two of two items.
ArraysOf(items) ==
  {<<>>, <<items[1], items[4]>>, <<items[2], items[3]>>}
  \cup {<<items[i]>> : i \in DOMAIN items}

\* Records of university 1: without relation arrays, or with the array of
\* education types, or with that and an empty array of degrees.
LinkUniRecs ==
  {BaseUni}
  \cup
  {[BaseUni EXCEPT !.has = {"education_type"}, !.education_type = a] :
     a \in ArraysOf(LinkUniItems)}
  \cup
  {[BaseUni EXCEPT !.has = {"education_type", "degree"},
                   !.education_type = <<LinkUniItems[3]>>]}

\* Direction records: the direction Math of either university without
\* relation arrays, and that of university 1 with the array of education
\* types.
LinkDirRecs ==
  {[BaseDir EXCEPT !.university_id = i] : i \in 1..2}
  \cup
  {[BaseDir EXCEPT !.has = {"education_types"}, !.education_types = a] :
     a \in ArraysOf(LinkDirItems)}

InitLinks ==
  /\ tax = Taxonomy
  /\ unis = RunUniversities(NoStores,
              <<[BaseUni EXCEPT !.has = {"degree"}, !.degree = <<UniItem(1)>>],
                [BaseUni EXCEPT !.id = 2, !.full_name_uz = "Law"]>>, {}).unis
  /\ gallery = {}
  /\ media = {}
  /\ dirs = NoDirs
  /\ fees = {}
  /\ run = NoRun
  /\ last = NoEvent
  /\ resp = NoEvent

NextLinks ==
  \/ BeginUniversities
  \/ \E u \in LinkUniRecs : UniversityRecord(u, {})
  \/ EndUniversities
  \/ BeginDirections
  \/ \E d \in LinkDirRecs : DirectionRecord(d)
  \/ EndDirections

SpecLinks == InitLinks /\ [][NextLinks]_vars

(***************************************************************************)
(* The template tags of the filter forms (templatetags/filter_tags.py).    *)
(* request.GET is the record of its keys: each holds the list of its       *)
(* values, the empty list when the key is absent.                          *)
(***************************************************************************)
\* str(option.id)
Str(n) ==
  CASE n = 0 -> "0" [] n = 1 -> "1" [] n = 2 -> "2" [] n = 3 -> "3"
    [] n = 4 -> "4" [] OTHER -> "5"

\* get_selected_names: the names of the options whose id is selected, in
\* the order of the options.  An option of University has no attribute
\* `name` (has_name is false of it): option.name raises AttributeError.
GetSelectedNames(options, selected_ids) ==
  IF selected_ids = <<>> THEN [ok |-> TRUE, names |-> <<>>]
  ELSE The({[ok |-> \A i \in DOMAIN sel : sel[i].has_name,
             names |-> [i \in DOMAIN sel |-> sel[i].name]] :
            sel \in {SelectSeq(options,
                       LAMBDA o : Str(o.id) \in Range(selected_ids))}})

\* param_mapping: the title of a multi-valued parameter and the table its
\* options come from ("universities" is the University table).
ParamMapping ==
  [institution_category |-> <<"OTM turi", "institution_category_id">>,
   location |-> <<"Manzil", "location">>,
   education_type |-> <<"Ta'lim turi", "edu_type">>,
   education_language |-> <<"Ta'lim tili", "edu_lang">>,
   degree |-> <<"Daraja", "degree">>,
   university |-> <<"Universitet", "universities">>,
   category |-> <<"Yo'nalish", "category">>]

\* request.GET.lists(): the keys in the order the requests of the model
\* give them.
SummaryKeys ==
  <<"institution_category", "location", "education_type",
    "education_language", "degree", "university", "category",
    "min_price", "max_price", "admission_status", "search">>

\* The options of a parameter as the view put them in the context: the
\* rows of the table in the order `ord` of their ids.
Options(param, ord) ==
  IF ParamMapping[param][2] = "universities"
  THEN [i \in DOMAIN ord[param] |->
          [id |-> ord[param][i], name |-> "", has_name |-> FALSE]]
  ELSE [i \in DOMAIN ord[param] |->
          [id |-> ord[param][i],
           name |-> tax[ParamMapping[param][2]][ord[param][i]],
           has_name |-> TRUE]]

\* zip(values, selected_names): as many pairs as the shorter list has
Zip(values, names) ==
  [i \in 1..Min({Len(values), Len(names)}) |-> <<values[i], names[i]>>]

\* current_values.remove(value): the first occurrence is removed
RemoveValue(values, value) ==
  IF value \notin Range(values) THEN values
  ELSE The({SubSeq(values, 1, k - 1) \o SubSeq(values, k + 1, Len(values)) :
            k \in {Min({i \in DOMAIN values : values[i] = value})}})

\* request.GET.get(key): the last value of the key, "" for None
QueryGet(q, key) == IF q[key] = <<>> THEN "" ELSE q[key][Len(q[key])]

\* request.GET.get(key, default)
QueryGetOr(q, key, default) ==
  IF q[key] = <<>> THEN default ELSE q[key][Len(q[key])]

\* f"?{new_query.urlencode()}" if new_query else request.path: the query
\* the link carries; `bare` when it is request.path.
RemoveUrl(new_query) ==
  [bare |-> \A k \in DOMAIN new_query : new_query[k] = <<>>,
   query |-> new_query]

\* The entries of one multi-valued parameter (the inner loop of
\* filter_summary).
ParamEntries(q, param, names) ==
  [i \in DOMAIN Zip(q[param], names) |->
     [title |-> ParamMapping[param][1],
      name |-> Zip(q[param], names)[i][2],
      remove_url |->
        RemoveUrl([q EXCEPT
                     ![param] = RemoveValue(@, Zip(q[param], names)[i][1])])]]

RECURSIVE MultiEntries(_, _, _)
\* for param, values in request.GET.lists(): ... over the keys `keys`
MultiEntries(q, keys, ord) ==
  IF keys = <<>> THEN [ok |-> TRUE, entries |-> <<>>]
  ELSE IF Head(keys) \notin DOMAIN ParamMapping \/ q[Head(keys)] = <<>>
  THEN MultiEntries(q, Tail(keys), ord)
  ELSE The({IF ~sn.ok THEN [ok |-> FALSE, entries |-> <<>>]
            ELSE The({[ok |-> rest.ok,
                       entries |-> ParamEntries(q, Head(keys), sn.names)
                                   \o rest.entries] :
                      rest \in {MultiEntries(q, Tail(keys), ord)}}) :
            sn \in {GetSelectedNames(Options(Head(keys), ord),
                                     q[Head(keys)])}})

\* The entry of the price range and the entry of the admission status
SpecialEntries(q) ==
  (IF QueryGet(q, "min_price") # "" \/ QueryGet(q, "max_price") # ""
   THEN <<[title |-> "Narx oralig'i",
           name |-> [min |-> QueryGetOr(q, "min_price", "0"),
                     max |-> QueryGetOr(q, "max_price", "inf")],
           remove_url |-> RemoveUrl([q EXCEPT !.min_price = <<>>,
                                              !.max_price = <<>>])]>>
   ELSE <<>>)
  \o
  (IF QueryGet(q, "admission_status") = "open"
   THEN <<[title |-> "Qabul holati", name |-> "Faqat ochiq qabullar",
           remove_url |-> RemoveUrl([q EXCEPT !.admission_status = <<>>])]>>
   ELSE <<>>)

\* The context filter_summary returns for the request q.
FilterSummaryContext(q, ord) ==
  The({IF ~m.ok
       THEN [view |-> "filter_summary", status |-> "500",
             active_filters |-> <<>>, total_count |-> 0,
             clear_filters_url |-> ""]
       ELSE [view |-> "filter_summary", status |-> "200",
             active_filters |-> m.entries \o SpecialEntries(q),
             total_count |-> Len(m.entries \o SpecialEntries(q)),
             clear_filters_url |-> QueryGet(q, "search")] :
       m \in {MultiEntries(q, SummaryKeys, ord)}})

\* The orders a queryset with no ordering may give the rows of each table
\* (University and Category have an ordering of their own).
OptionOrders ==
  {[p \in DOMAIN ParamMapping |->
      IF p = "education_type" THEN t
      ELSE IF p = "degree" THEN d
      ELSE IF p = "university"
      THEN CHOOSE o \in Perms(DOMAIN unis) : TRUE
      ELSE CHOOSE o \in Perms(DOMAIN tax[ParamMapping[p][2]]) : TRUE] :
     t \in Perms(DOMAIN tax["edu_type"]), d \in Perms(DOMAIN tax["degree"])}

\* The tag filter_summary is rendered for the request that is being
\* answered.
FilterSummary ==
  /\ last.op = "get"
  /\ resp = NoEvent
  /\ \E ord \in OptionOrders : resp' = FilterSummaryContext(last.q, ord)
  /\ UNCHANGED <<stores, run, last>>

(***************************************************************************)
(* SpecSummary: filter_summary on requests that select options in every    *)
(* order, twice, and options that do not exist.                            *)
(***************************************************************************)
SummaryValueLists ==
  {<<>>, <<"1">>, <<"2">>, <<"1", "2">>, <<"2", "1">>, <<"3", "1">>,
   <<"1", "3">>, <<"1", "1">>}

SummaryQueries ==
  [institution_category : {<<>>},
   location : {<<>>},
   education_type : SummaryValueLists,
   education_language : {<<>>, <<"1">>},
   degree : {<<>>, <<"2", "1">>},
   university : {<<>>},
   category : {<<>>},
   min_price : {<<>>, <<"1">>},
   max_price : {<<>>, <<"">>},
   admission_status : {<<>>, <<"open">>},
   search : {<<>>, <<"a">>}]
  \cup
  [institution_category : {<<>>},
   location : {<<>>},
   education_type : {<<>>, <<"1">>},
   education_language : {<<>>},
   degree : {<<>>},
   university : {<<"1">>, <<"2">>},
   category : {<<>>, <<"1">>},
   min_price : {<<>>},
   max_price : {<<>>},
   admission_status : {<<>>},
   search : {<<>>}]

InitSummary ==
  /\ tax = Taxonomy
  /\ unis = RunUniversities(NoStores, <<BaseUni>>, {}).unis
  /\ gallery = {}
  /\ media = {}
  /\ dirs = NoDirs
  /\ fees = {}
  /\ run = NoRun
  /\ last \in {[op |-> "get", q |-> q] : q \in SummaryQueries}
  /\ resp = NoEvent

NextSummary == FilterSummary

SpecSummary == InitSummary /\ [][NextSummary]_vars

(***************************************************************************)
(* SpecRace: two runs of import_universities at the same time, each with   *)
(* one record of the name TSU.  Each run is a transaction                  *)
(* (transaction.atomic on handle) of a store at its default isolation,     *)
(* read committed: a run sees the rows that are committed, its writes are  *)
(* seen by the other run when it commits, and a statement that needs a row *)
(* or a unique key the other run holds waits until that run has ended.     *)
(***************************************************************************)
\* A transaction that has not begun.
NoTx == [at |-> "idle", u |-> BaseUni, writes |-> NoUnis, locks |-> {}]

\* The other of the two runs.
Other(i) == 3 - i

\* The rows of `after` that are new or differ from the row of `before`:
\* what the INSERT and UPDATE statements of the record have written.
Written(before, after) ==
  [id \in {j \in DOMAIN after :
             j \notin DOMAIN before \/ after[j] # before[j]} |-> after[id]]

\* COMMIT: the writes of the transaction become the rows of the table.
Overlay(table, writes) ==
  [id \in DOMAIN table \cup DOMAIN writes |->
     IF id \in DOMAIN writes THEN writes[id] ELSE table[id]]

\* The statements of the record u wait for the transaction o: the row that
\* select_for_update().get(full_name=...) finds is locked or written by o,
\* or a row to be written has the primary key or the slug of a row that o
\* has written and not committed.
Waits(o, u, w) ==
  /\ o.at = "written"
  /\ \/ UniLookup(unis, UniName(u)) \cap (o.locks \cup DOMAIN o.writes) # {}
     \/ DOMAIN w \cap DOMAIN o.writes # {}
     \/ \E id \in DOMAIN w, j \in DOMAIN o.writes : w[id].slug = o.writes[j].slug

\* handle is entered by the run i: transaction.atomic begins.
RaceBegin(i) ==
  /\ run.cmd = "race"
  /\ run.tx[i].at = "idle"
  /\ run' = [run EXCEPT !.tx[i].at = "open",
                        !.overlap = @ \/ run.tx[Other(i)].at \in {"open", "written"}]
  /\ last' = [op |-> "begin", cmd |-> "import_universities", tx |-> i]
  /\ UNCHANGED <<stores, resp>>

\* The run i processes its record: update_or_create and save on the rows
\* that are committed.
RaceRecord(i, u) ==
  \E r \in {ImportUniversity(
               [unis |-> unis, gallery |-> gallery, media |-> media], u, {})} :
    /\ run.cmd = "race"
    /\ run.tx[i].at = "open"
    /\ r.ok
    /\ ~Waits(run.tx[Other(i)], u, Written(unis, r.unis))
    /\ run' = [run EXCEPT !.tx[i] =
                 [at |-> "written", u |-> u,
                  writes |-> Written(unis, r.unis),
                  locks |-> UniLookup(unis, UniName(u))]]
    /\ last' = [op |-> "write", tx |-> i, u |-> u]
    /\ UNCHANGED <<stores, resp>>

\* The record raises (MultipleObjectsReturned, IntegrityError of a slug):
\* handle ends with the error and the transaction is rolled back.
RaceRecordFails(i, u) ==
  \E r \in {ImportUniversity(
               [unis |-> unis, gallery |-> gallery, media |-> media], u, {})} :
    /\ run.cmd = "race"
    /\ run.tx[i].at = "open"
    /\ ~r.ok
    /\ ~Waits(run.tx[Other(i)], u, NoUnis)
    /\ run' = [run EXCEPT !.tx[i] = [NoTx EXCEPT !.at = "failed", !.u = u]]
    /\ last' = [op |-> "failed", cmd |-> "import_universities", tx |-> i,
                u |-> u]
    /\ UNCHANGED <<stores, resp>>

\* The end of handle of the run i: the transaction commits.
RaceCommit(i) ==
  /\ run.cmd = "race"
  /\ run.tx[i].at = "written"
  /\ unis' = Overlay(unis, run.tx[i].writes)
  /\ run' = [run EXCEPT !.tx[i].at = "done", !.tx[i].locks = {},
                        !.committed = Append(@, i)]
  /\ last' = [op |-> "commit", tx |-> i, u |-> run.tx[i].u]
  /\ UNCHANGED <<tax, gallery, media, dirs, fees, resp>>

\* The records of the two runs: the university TSU, with a description,
\* under another id and slug, and under another id with its own slug.
RaceRecs ==
  {BaseUni,
   [BaseUni EXCEPT !.description_uz = "d"],
   [BaseUni EXCEPT !.id = 2, !.slug = "alt", !.description_uz = "d"],
   [BaseUni EXCEPT !.id = 2]}

\* The store is empty or holds the university an earlier run imported.
InitRace ==
  /\ tax = Taxonomy
  /\ \E f \in {<<>>, <<BaseUni>>} :
       unis = RunUniversities(NoStores, f, {}).unis
  /\ gallery = {}
  /\ media = {}
  /\ dirs = NoDirs
  /\ fees = {}
  /\ run = [cmd |-> "race", tx |-> <<NoTx, NoTx>>, overlap |-> FALSE,
            committed |-> <<>>]
  /\ last = NoEvent
  /\ resp = NoEvent

NextRace ==
  \/ \E i \in 1..2 : RaceBegin(i)
  \/ \E i \in 1..2, u \in RaceRecs : RaceRecord(i, u)
  \/ \E i \in 1..2, u \in RaceRecs : RaceRecordFails(i, u)
  \/ \E i \in 1..2 : RaceCommit(i)

SpecRace == InitRace /\ [][NextRace]_vars

(***************************************************************************)
(* Claims about import_filters, checked under SpecFilters.                 *)
(***************************************************************************)
UpsertWithKnownId ==
  /\ last.op = "upsert"
  /\ last.rec.id # 0
  /\ last.rec.id \in DOMAIN last.pre

UpsertWithNewId ==
  /\ last.op = "upsert"
  /\ last.rec.id # 0
  /\ last.rec.id \notin DOMAIN last.pre

C2_State ==
  UpsertWithKnownId =>
    LET t == tax[last.key]
        id == last.rec.id
        name == Strip(last.rec.name)
    IN /\ DOMAIN t = DOMAIN last.pre
       /\ IF NameTaken(last.pre, name, id) \/ last.broken
          THEN t = last.pre
          ELSE t = [last.pre EXCEPT ![id] = name]

C2_Step ==
  last'.op = "upsert" =>
  \A k \in TableKeys :
    /\ DOMAIN tax[k] \subseteq DOMAIN tax'[k]
    /\ \A i \in DOMAIN tax[k] : \A j \in DOMAIN tax'[k] :
         tax'[k][j] = tax[k][i] => j = i

SecondRunEnded ==
  /\ last.op \in {"report", "failed"}
  /\ last.cmd = "import_universities"
  /\ last.again

\* C1: running import_universities twice in succession on the same feed
\* leaves, after the second run, the University rows the first run left
\* (same rows, same field values), and the second run reports created = 0,
\* every record of the feed counted as updated.
C1_Original ==
  SecondRunEnded =>
    /\ last.op = "report"
    /\ unis = last.before
    /\ last.created = 0
    /\ last.updated = Len(last.feed)


(***************************************************************************)
(* Claims about the gallery, checked under SpecGallery.                    *)
(***************************************************************************)
\* Two different Gallery rows of one university.
SameGallery(r1, r2) == r1.id # r2.id /\ r1.university = r2.university

C7_PopulatedOnce ==
  (last.op = "university" /\ GalleryOf(last.gallery, last.uni) # {}) =>
    /\ gallery = last.gallery
    /\ last.gfetch = <<>>

\* The record of a university whose gallery holds the image a.jpg is
\* processed again with the list that names that image.
C7_Witness ==
  /\ last.op = "university"
  /\ last.entries = <<"g/a.jpg">>
  /\ \E r \in GalleryOf(last.gallery, last.uni) : r.image = "a.jpg"
  /\ gallery = last.gallery

(***************************************************************************)
(* Claims about import_directions, checked under SpecDirections.           *)
(***************************************************************************)
\* The last sub-record of `list` that resolves to the education type et.
LastFor(list, et) ==
  list[CHOOSE j \in DOMAIN list :
         /\ FeeType(list[j]) = et
         /\ \A k \in DOMAIN list : FeeType(list[k]) = et => k <= j]

\* C4: there is at most one TuitionFee row per (direction, education_type);
\* after a record whose tuition-fee sub-records resolve to a pair, the row
\* of the pair holds the academic year and the fees of the last of them.
C4_OneFeePerPair ==
  /\ \A f1, f2 \in fees :
       (f1.direction = f2.direction /\ f1.education_type = f2.education_type)
         => f1 = f2
  /\ (last.op = "direction" /\ last.kind # "skipped") =>
       \A i \in DOMAIN last.d.tuition_fees :
         LET et == FeeType(last.d.tuition_fees[i])
             fee == LastFor(last.d.tuition_fees, et)
         IN et # 0 =>
              \E r \in fees :
                /\ r.direction = last.dir
                /\ r.education_type = et
                /\ r.academic_year = fee.academic_year
                /\ r.local_tuition_fee = fee.local_tuition_fee
                /\ r.international_tuition_fee = fee.international_tuition_fee

\* Two sub-records for the type A, by name then by id: one row, holding the
\* values of the second.
C4_Witness ==
  /\ last.op = "direction"
  /\ last.d.tuition_fees = <<FeeA1, FeeA2>>
  /\ \E r \in fees :
       /\ r.direction = last.dir
       /\ r.education_type = 1
       /\ r.local_tuition_fee = 2
       /\ r.academic_year = "2025"

\* C10: a record whose university_id is missing or is the id of no
\* University leaves the Direction and TuitionFee tables as they were, adds
\* one to the skipped count and lets the run go on; every other record is
\* created or updated, and the report counts every record once.
C10_SkipMissing ==
  /\ (last.op = "direction" /\
      (last.d.university_id = 0 \/ last.d.university_id \notin DOMAIN unis))
       => /\ last.kind = "skipped"
          /\ dirs = last.dirs
          /\ fees = last.fees
          /\ run.skipped = last.skipped + 1
          /\ run.cmd = "import_directions"
  /\ (last.op = "direction" /\ last.d.university_id \in DOMAIN unis)
       => /\ last.kind \in {"created", "updated"}
          /\ last.dir \in DOMAIN dirs
          /\ dirs[last.dir].university = last.d.university_id
          /\ run.skipped = last.skipped
  /\ (last.op = "report" /\ last.cmd = "import_directions")
       => last.created + last.updated + last.skipped = last.n

\* A run that skipped a record and created a direction has ended.
C10_Witness ==
  /\ last.op = "report"
  /\ last.cmd = "import_directions"
  /\ last.skipped >= 1
  /\ last.created >= 1
  /\ DOMAIN dirs # {}

(***************************************************************************)
(* Claims about the slugs, checked under SpecSlug.                         *)
(***************************************************************************)
\* The slug of the row the last save wrote.
SavedSlug ==
  IF last.model = "University" THEN unis[last.id].slug
  ELSE dirs[last.id].direction_slug

\* The slugs the other rows of the table had when the row was saved.
TakenSlugs ==
  IF last.model = "University"
  THEN {last.unis[i].slug : i \in DOMAIN last.unis \ {last.id}}
  ELSE {last.dirs[i].direction_slug : i \in DOMAIN last.dirs \ {last.id}}

\* C5: a row saved with an empty slug gets its base slug (slugify of the
\* name, or of the university's slug and the direction's name) when no
\* other row has it, and otherwise base-k for the smallest k >= 1 that no
\* other row has; so all the slugs of a table are pairwise distinct.
C5_SlugDerived ==
  /\ last.op \in {"save", "rejected"} =>
       /\ last.op = "save"
       /\ \/ SavedSlug = last.base /\ last.base \notin TakenSlugs
          \/ /\ last.base \in TakenSlugs
             /\ \E k \in 1..(Cardinality(TakenSlugs) + 1) :
                  /\ SavedSlug = SuffixedSlug(last.base, k)
                  /\ SavedSlug \notin TakenSlugs
                  /\ \A j \in 1..(k - 1) :
                       SuffixedSlug(last.base, j) \in TakenSlugs
  /\ \A i, j \in DOMAIN unis : unis[i].slug = unis[j].slug => i = j
  /\ \A i, j \in DOMAIN dirs :
       dirs[i].direction_slug = dirs[j].direction_slug => i = j

\* Two universities of the same name have the slugs of the example.
C5_Witness ==
  /\ last.op = "save"
  /\ last.model = "University"
  /\ \E i \in DOMAIN unis :
       /\ i # last.id
       /\ unis[i].full_name = unis[last.id].full_name
       /\ unis[i].slug = "tashkent-state-university"
  /\ SavedSlug = "tashkent-state-university-1"


(***************************************************************************)
(* Claims about the listings, checked under SpecListing.                   *)
(***************************************************************************)
\* The entities that match the filters of the last request: the rows of
\* the listing's table that pass the filters and are linked to a row named
\* by each many-to-many parameter in effect.
Matching ==
  CASE resp.view = "DirectionListView" -> DirSelected(last.q)
    [] resp.view = "direction_filter_api" -> DirApiSelected(last.q)
    [] OTHER -> UniSelected(last.q)

\* How many times the entity `id` appears in the result.
Occurrences(id) == Cardinality({k \in DOMAIN resp.rows : resp.rows[k] = id})

\* C8: in the result of the university listing (UniversityListView and
\* university_filter_api) and of the direction listing, every entity that
\* matches the filters appears exactly once and no other entity appears,
\* also when the entity is linked to several rows named by a multi-valued
\* many-to-many parameter, and for every sort option.
C8_OncePerEntity ==
  (last.op = "request" /\ resp.status = "200") =>
    /\ \A id \in Matching : Occurrences(id) = 1
    /\ Range(resp.rows) \subseteq Matching

\* A listing sorted by price answers education_type=1&education_type=2 and
\* degree=1&degree=2 with a university that is linked to both education
\* types and both degrees.
C8_Witness ==
  /\ last.op = "request"
  /\ resp.view = "university_filter_api"
  /\ resp.status = "200"
  /\ last.q.education_type = <<"1", "2">>
  /\ last.q.degree = <<"1", "2">>
  /\ last.q.sort = "price_high"
  /\ \E id \in Range(resp.rows) :
       /\ unis[id].education_types = {1, 2}
       /\ unis[id].degrees = {1, 2}
  /\ Cardinality(Range(resp.rows)) > 1

\* The last request without its price parameters.
WithoutPrices == [last.q EXCEPT !.min_price = "", !.max_price = ""]

\* The universities the other filters keep whose fees are within the
\* decimal bounds of the last request.
WithinPrices ==
  {id \in UniSelected(WithoutPrices) :
     /\ IntOk(last.q.min_price) =>
          /\ unis[id].minimal_tuition_fee # NULL
          /\ unis[id].minimal_tuition_fee >= ToInt(last.q.min_price)
     /\ IntOk(last.q.max_price) =>
          /\ unis[id].maximal_tuition_fee # NULL
          /\ unis[id].maximal_tuition_fee <= ToInt(last.q.max_price)}

\* C9: in the university listing no value of min_price or max_price raises
\* an error; a min_price made only of digits restricts the result to the
\* universities with minimal_tuition_fee >= the value, a max_price made only
\* of digits to those with maximal_tuition_fee <= the value, and a value
\* that is not numeric restricts nothing.  (A request whose other
\* parameters raise is left aside.)
C9_Original ==
  (/\ last.op = "request"
   /\ resp.view \in {"UniversityListView", "university_filter_api"}
   /\ last.q.page = ""
   /\ ~UniQueryFails(WithoutPrices)) =>
    /\ resp.status = "200"
    /\ Range(resp.rows) = WithinPrices


\* The values of a multi-valued parameter that a listing filters by: every
\* value in DirectionListView and for institution_category, the values
\* isdigit() is true of elsewhere.  A parameter none of whose values is
\* used is not active.
UsedValues(view, p, values) ==
  IF view = "DirectionListView" \/ p = "institution_category"
  THEN Range(values)
  ELSE {v \in Range(values) : IsDigit(v)}

\* The university u matches the value v of the parameter p.
UniMatches(u, p, v) ==
  CASE p = "institution_category" ->
         IF IsDigit(v) THEN u.institution_category = ToInt(v)
         ELSE IContains(NameOf(tax["institution_category_id"],
                               u.institution_category), v)
    [] p = "location" -> u.location = ToInt(v)
    [] p = "education_type" -> ToInt(v) \in u.education_types
    [] p = "education_language" -> ToInt(v) \in u.education_languages
    [] p = "degree" -> ToInt(v) \in u.degrees

\* The direction d matches the value v of the parameter p.
DirMatches(d, p, v) ==
  CASE p = "university" -> d.university = ToInt(v)
    [] p = "category" -> d.category = ToInt(v)
    [] p = "education_type" -> ToInt(v) \in d.education_types
    [] p = "education_language" -> ToInt(v) \in d.education_languages
    [] p = "degree" -> ToInt(v) \in d.degrees

\* The last request with its multi-valued parameters absent.
SingleValuedOnly ==
  IF resp.view \in {"DirectionListView", "direction_filter_api"}
  THEN [last.q EXCEPT !.university = <<>>, !.category = <<>>,
          !.education_type = <<>>, !.education_language = <<>>,
          !.degree = <<>>]
  ELSE [last.q EXCEPT !.institution_category = <<>>, !.location = <<>>,
          !.education_type = <<>>, !.education_language = <<>>,
          !.degree = <<>>]

\* The entities that satisfy every active parameter of the last request:
\* each single-valued one, and one value at least of each multi-valued one.
SatisfyingAll ==
  IF resp.view \in {"DirectionListView", "direction_filter_api"}
  THEN {i \in DOMAIN dirs :
          /\ IF resp.view = "DirectionListView"
             THEN DirFilters(dirs[i], SingleValuedOnly)
             ELSE DirApiFilters(dirs[i], SingleValuedOnly)
          /\ \A p \in {"university", "category", "education_type",
                       "education_language", "degree"} :
               UsedValues(resp.view, p, last.q[p]) # {} =>
                 \E v \in UsedValues(resp.view, p, last.q[p]) :
                   DirMatches(dirs[i], p, v)}
  ELSE {i \in DOMAIN unis :
          /\ UniFilters(unis[i], SingleValuedOnly)
          /\ \A p \in {"institution_category", "location", "education_type",
                       "education_language", "degree"} :
               UsedValues(resp.view, p, last.q[p]) # {} =>
                 \E v \in UsedValues(resp.view, p, last.q[p]) :
                   UniMatches(unis[i], p, v)}

\* C14: in the university and direction listings an entity is in the result
\* if and only if it satisfies every active filter parameter (AND across the
\* parameters), a multi-valued parameter being satisfied when the entity
\* matches at least one of its values (OR within one parameter).
C14_AndAcrossOrWithin ==
  (last.op = "request" /\ resp.status = "200") =>
    Range(resp.rows) = SatisfyingAll

\* UniversityListView answers education_type=2&education_language=1 and a
\* search: a university linked to the type and not to the language is left
\* out; and a listing answers two values of one parameter with an entity
\* linked to one of them only.
C14_Witness ==
  /\ last.op = "request"
  /\ resp.status = "200"
  /\ \/ /\ resp.view = "UniversityListView"
        /\ last.q.education_type = <<"2">>
        /\ last.q.education_language = <<"1">>
        /\ \E i \in DOMAIN unis :
             /\ 2 \in unis[i].education_types
             /\ i \notin Range(resp.rows)
        /\ resp.rows # <<>>
     \/ /\ resp.view = "DirectionListView"
        /\ last.q.education_type = <<"1", "2">>
        /\ last.q.university = <<"1">>
        /\ \E i \in Range(resp.rows) : dirs[i].education_types = {2}
        /\ \E i \in DOMAIN dirs : i \notin Range(resp.rows)

\* A university whose reference fk into `table` is selected by one value at
\* least of the parameter: a number selects by the id, another value by the
\* name of the row referred to.
SelectedByReference(table, fk, values) ==
  values # <<>> =>
    \E v \in Range(values) :
      IF IntOk(v) THEN fk = ToInt(v)
      ELSE IContains(NameOf(table, fk), v)

\* C15: for both single taxonomy reference parameters of the university
\* listing, institution_category and location, a numeric value selects the
\* universities whose foreign key equals that id and a non-numeric value
\* those whose referenced row's name contains the value, case-insensitive.
\* (Stated on the requests that were answered and have no other filter.)
C15_Original ==
  (/\ last.op = "request"
   /\ resp.view \in {"UniversityListView", "university_filter_api"}
   /\ resp.status = "200"
   /\ last.q = [NoUniQuery EXCEPT
                  !.institution_category = last.q.institution_category,
                  !.location = last.q.location]) =>
    Range(resp.rows) =
      {i \in DOMAIN unis :
         /\ SelectedByReference(tax["institution_category_id"],
                                unis[i].institution_category,
                                last.q.institution_category)
         /\ SelectedByReference(tax["location"], unis[i].location,
                                last.q.location)}

\* The value of a flag parameter, when it is one of the true/false values.
FlagValues == {"true", "false"}

\* The entity passes the flag parameter: its field equals the value.
FlagFilter(field, value) == value \in FlagValues => field = (value = "true")

\* C16: in the listings a boolean flag parameter (grant available, stipend,
\* admission open) that is present with a recognised true/false value
\* restricts the result to the entities whose boolean field equals that
\* value; absent or not recognised, it restricts nothing.  admission_status
\* has the value the views recognise (open, for true); the grant and the
\* stipend flag are stated with the values true and false.  (Stated on the
\* requests that have no other filter.)
C16_Original ==
  (last.op = "request" /\ resp.status = "200") =>
    IF resp.view \in {"DirectionListView", "direction_filter_api"}
    THEN last.q = [SingleValuedOnly EXCEPT !.search = "", !.page = ""]
         => Range(resp.rows) =
              {i \in DOMAIN dirs :
                 /\ last.q.admission_status = "open"
                      => dirs[i].is_open_for_admission
                 /\ FlagFilter(dirs[i].has_stipend, last.q.has_stipend)}
    ELSE last.q = [NoUniQuery EXCEPT
                     !.admission_status = last.q.admission_status,
                     !.has_grant = last.q.has_grant]
         => Range(resp.rows) =
              {i \in DOMAIN unis :
                 /\ last.q.admission_status = "open"
                      => unis[i].is_open_for_admission
                 /\ FlagFilter(unis[i].has_grant, last.q.has_grant)}

\* Row a comes before row b in the order of the sort key with the ties
\* ordered by name.
KeyThenName(a, b, sort, null_high) ==
  \/ UniSortsBefore(a, b, sort, null_high)
  \/ /\ ~UniSortsBefore(b, a, sort, null_high)
     /\ TextRank(a.full_name) < TextRank(b.full_name)

\* C17: for every sort option of the university listing (name, price_low,
\* price_high, location, and the by-name default of an absent or
\* unrecognised value) the order of the result is determined by the store:
\* the rows are in the order of the sort key and rows that tie on it are in
\* the order of their names (where the store sorts a null being the one
\* thing left to it).
C17_Original ==
  (/\ last.op = "request"
   /\ resp.view \in {"UniversityListView", "university_filter_api"}
   /\ resp.status = "200") =>
    \E null_high \in BOOLEAN :
      \A i, j \in DOMAIN resp.rows :
        i < j => ~KeyThenName(unis[resp.rows[j]], unis[resp.rows[i]],
                              last.q.sort, null_high)

\* A filter value of the last request makes the query of its view raise.
FilterError ==
  CASE resp.view = "DirectionListView" -> DirQueryFails(last.q)
    [] resp.view = "direction_filter_api" -> DirApiQueryFails(last.q)
    [] OTHER -> UniQueryFails(last.q)

\* The number of pages of the result of the last request.
LastPage ==
  NumPages(Cardinality(Matching),
           IF resp.view \in {"DirectionListView", "direction_filter_api"}
           THEN DirPageSize ELSE UniPageSize)

\* The nearest valid page: 1 for a value that is no number (the numbers of
\* the model are 1 and more), the last page for a number beyond it.
NearestPage ==
  IF IntOk(last.q.page) THEN Min({ToInt(last.q.page), LastPage}) ELSE 1

\* C18: in the paginated listings (page size 12 for universities, 10 for
\* directions) a page parameter that is out of range or not a number never
\* produces an error: the response is the nearest valid page.  (A request
\* whose filter values raise is left aside.)
C18_Original ==
  (last.op = "request" /\ last.q.page # "" /\ ~FilterError) =>
    /\ resp.status = "200"
    /\ resp.number = NearestPage

\* The values of a parameter of ids that are numbers.
ValidIds(values) == SelectSeq(values, LAMBDA v : IntOk(v))

\* The last request with its invalid values absent: the values of the id
\* parameters that are no numbers, the prices that are no numbers (a
\* value of institution_category that is no number is a name to look for;
\* only the one isdigit() is true of and int() rejects is invalid).
WithoutInvalid ==
  IF resp.view \in {"DirectionListView", "direction_filter_api"}
  THEN [last.q EXCEPT !.university = ValidIds(@), !.category = ValidIds(@),
          !.education_type = ValidIds(@),
          !.education_language = ValidIds(@), !.degree = ValidIds(@)]
  ELSE [last.q EXCEPT
          !.institution_category = SelectSeq(@, LAMBDA v : ~BadNumber(v)),
          !.location = ValidIds(@), !.education_type = ValidIds(@),
          !.education_language = ValidIds(@), !.degree = ValidIds(@),
          !.min_price = IF IntOk(@) THEN @ ELSE "",
          !.max_price = IF IntOk(@) THEN @ ELSE ""]

\* The entities the view of the last request selects for the request q.
SelectedFor(q) ==
  CASE resp.view = "DirectionListView" -> DirSelected(q)
    [] resp.view = "direction_filter_api" -> DirApiSelected(q)
    [] OTHER -> UniSelected(q)

\* C19: on the read path no filter value ever causes an error: in every
\* listing (UniversityListView, DirectionListView, university_filter_api,
\* direction_filter_api) an invalid value of a recognised parameter, such as
\* a non-numeric id, yields the result the request has with that value
\* absent.  (The page parameter is left to C18.)
C19_Original ==
  (last.op = "request" /\ last.q.page = "") =>
    /\ resp.status = "200"
    /\ Range(resp.rows) = SelectedFor(WithoutInvalid)

(***************************************************************************)
(* Claims about the runs of the import commands, checked under SpecRuns.   *)
(***************************************************************************)
\* C11: every import run (import_filters, import_universities,
\* import_directions) is all-or-nothing: when a record raises an error that
\* nothing handles, the tables after the run are what they were before the
\* run; no row the earlier records of the run created, updated or deleted
\* remains.
C11_AllOrNothing == last.op = "failed" => Tables = last.before

\* A run of import_universities failed after an earlier record of it had
\* changed the tables.
C11_Witness ==
  /\ last.op = "failed"
  /\ last.cmd = "import_universities"
  /\ last.dirty
  /\ last.before.tax["location"] # EmptyTable


(***************************************************************************)
(* Claims about the media of import_universities, checked under SpecMedia. *)
(***************************************************************************)
\* The file field `f` of every university that holds a file is the same
\* after the step.
FieldKept(f) ==
  \A i \in DOMAIN unis :
    unis[i][f] # "" => (i \in DOMAIN unis' /\ unis'[i][f] = unis[i][f])

\* The record just imported went to a university whose file field `f` held
\* a file, and the path the record gives for it was not downloaded.
NoDownloadFor(f, path) ==
  (last'.uni \in DOMAIN unis /\ unis[last'.uni][f] # "")
    => path \notin Range(last'.fetch)

\* C12: import_universities attaches a logo or a licence file only when the
\* field is unset: the import of a record changes the logo (the
\* license_file) of no university whose field holds a file, and downloads
\* nothing for such a field, whatever path the record gives.
C12_Original ==
  [][last'.op = "university" =>
       /\ FieldKept("logo")
       /\ FieldKept("license_file")
       /\ NoDownloadFor("logo", last'.u.logo)
       /\ NoDownloadFor("license_file", LicencePath(last'.u))]_vars


\* The scalar fields of the record of the feed are on the row.
ScalarsWritten(row, u) ==
  /\ row.full_name = UniName(u)
  /\ row.description = u.description_uz
  /\ row.minimal_tuition_fee = u.minimal_tuition_fee
  /\ row.maximal_tuition_fee = u.maximal_tuition_fee
  /\ row.is_open_for_admission = Bool(u.is_open_for_admission)

\* C13: a failed download (logo, licence file or gallery image) never aborts
\* a run of import_universities.  After a record whose downloads all failed,
\* the file field a download was tried for is unset (the Gallery row of an
\* image has no image), the other fields of the record are on the row, and
\* the run is still open, so that the records after it are written and the
\* run commits; and a record that does abort the run would have aborted it
\* with every download succeeding.
C13_DownloadFailure ==
  /\ (last.op = "university" /\ last.fetched = {}) =>
       /\ run.cmd = "import_universities"
       /\ last.uni \in DOMAIN unis
       /\ ScalarsWritten(unis[last.uni], last.u)
       /\ last.u.logo \in Range(last.fetch) => unis[last.uni].logo = ""
       /\ LicencePath(last.u) \in Range(last.fetch)
            => unis[last.uni].license_file = ""
       /\ \A i \in DOMAIN last.gfetch :
            \E g \in GalleryOf(gallery, last.uni) :
              g.image = "" /\ g.link = "" /\ g \notin last.gallery
       /\ media = {} => \A g \in gallery : g.image = ""
  /\ (last.op = "failed" /\ last.cmd = "import_universities") =>
       ~ImportUniversity([unis |-> last.unis, gallery |-> last.gallery,
                          media |-> last.media], last.u, MediaPaths).ok

\* The second record of a run has a logo and a gallery image whose downloads
\* fail; its description is written and the first record's row is there.
C13_Witness ==
  /\ last.op = "university"
  /\ last.fetched = {}
  /\ last.fetch = <<"new.png">>
  /\ last.gfetch = <<"g/a.jpg">>
  /\ run.n = 2
  /\ unis[last.uni].description = "d"
  /\ unis[last.uni].logo = ""
  /\ 2 \in DOMAIN unis

(***************************************************************************)
(* Claims about slugs in the import runs, checked under SpecRuns.          *)
(***************************************************************************)
\* The record the run failed at has the slug of a different row: a
\* university of another name, a direction of another name.
DuplicateSlug ==
  IF last.cmd = "import_universities"
  THEN \E i \in DOMAIN last.unis :
         /\ last.unis[i].full_name # UniName(last.u)
         /\ last.unis[i].slug = UniSlug(last.u)
  ELSE \E i \in DOMAIN last.dirs :
         /\ last.dirs[i].direction_name # DirName(last.d)
         /\ last.dirs[i].direction_slug
              = DirSlug(unis[last.d.university_id].slug, last.d)

\* C20: a duplicate slug is never surfaced as a failure of an import run:
\* when import_universities or import_directions processes a record whose
\* derived or supplied slug is the slug of a different existing row, the
\* run does not fail (and the new row gets a numeric-suffixed slug).
C20_Original ==
  (/\ last.op = "failed"
   /\ last.cmd \in {"import_universities", "import_directions"}) =>
    ~DuplicateSlug

(***************************************************************************)
(* Claims about the relation arrays, checked under SpecLinks.              *)
(***************************************************************************)
\* The places among the name fields of an item whose value is the name of
\* a row of the table.
MatchingNames(table, itm, name_keys) ==
  {k \in DOMAIN name_keys :
     /\ itm[name_keys[k]] # ""
     /\ \E i \in DOMAIN table : table[i] = itm[name_keys[k]]}

\* The row an item stands for: the row named by the first name field that
\* names one; with no such field, the row of the item's id; else none.
FirstMatch(table, itm, id_key, name_keys) ==
  IF MatchingNames(table, itm, name_keys) # {}
  THEN {i \in DOMAIN table :
          table[i] = itm[name_keys[Min(MatchingNames(table, itm, name_keys))]]}
  ELSE IF itm[id_key] \in DOMAIN table THEN {itm[id_key]}
  ELSE {}

ExpectedLinks(table, items, id_key, name_keys) ==
  UNION {FirstMatch(table, items[k], id_key, name_keys) : k \in DOMAIN items}

\* C21: an item of a many-to-many relation array resolves to the taxonomy
\* row named by the first of its locale name fields (uz, then ru, then en)
\* that is the exact name of a row; its id is consulted only when no name
\* field matched; an item that matches neither way contributes nothing and
\* does not abort the run (no record of the feeds raises, and the run is
\* open after the record).
C21_NameThenId ==
  /\ (last.op = "university" /\ "education_type" \in last.u.has) =>
       /\ unis[last.uni].education_types =
            ExpectedLinks(tax["edu_type"], last.u.education_type, "id",
                          UniNameKeys)
       /\ run.cmd = "import_universities"
  /\ (last.op = "direction" /\ last.kind # "skipped") =>
       /\ dirs[last.dir].education_types =
            ExpectedLinks(tax["edu_type"], last.d.education_types,
                          "education_type_id", DirTypeKeys)
       /\ run.cmd = "import_directions"
  /\ run.cmd = "import_universities" =>
       \A u \in LinkUniRecs :
         ImportUniversity([unis |-> unis, gallery |-> gallery,
                           media |-> media], u, {}).ok
  /\ run.cmd = "import_directions" =>
       \A d \in LinkDirRecs :
         ImportDirection([dirs |-> dirs, fees |-> fees], d).ok

\* A university record with two items: one whose first name is of no row,
\* whose second name is of row 2 and whose id is of row 1, and one that
\* matches nothing; the university is linked to row 2 alone.  Before it a
\* direction record resolved an item by its id.
C21_Witness ==
  /\ last.op = "university"
  /\ last.u.education_type = <<LinkUniItems[1], LinkUniItems[4]>>
  /\ unis[last.uni].education_types = {2}
  /\ run.n = 2
  /\ \E i \in DOMAIN dirs : dirs[i].education_types = {2}

(***************************************************************************)
(* Claims about import_directions, checked under SpecDirections and        *)
(* SpecLinks.                                                              *)
(***************************************************************************)
\* The education types the sub-record k of the last record stands for:
\* none when neither a name field nor the id is of a row.
FeeTypeOf(k) ==
  FirstMatch(tax["edu_type"], last.d.tuition_fees[k], "education_type_id",
             DirTypeKeys)

\* C22: in import_directions a tuition-fee sub-record whose education type
\* resolves neither by a locale name field nor by education_type_id creates
\* and updates no TuitionFee row (the rows a record writes are rows of its
\* direction for the education types its sub-records resolve to), and the
\* other sub-records of the direction and the other records are still
\* processed (each sub-record that resolves has its row, the run is open
\* after the record, and no record of the feeds raises).
C22_UnresolvedFeeSkipped ==
  /\ (last.op = "direction" /\ last.kind # "skipped") =>
       /\ \A r \in fees \ last.fees :
            /\ r.direction = last.dir
            /\ \E k \in DOMAIN last.d.tuition_fees :
                 r.education_type \in FeeTypeOf(k)
       /\ \A k \in DOMAIN last.d.tuition_fees :
            \A t \in FeeTypeOf(k) :
              \E r \in fees : r.direction = last.dir /\ r.education_type = t
       /\ run.cmd = "import_directions"
  /\ run.cmd = "import_directions" =>
       \A d \in DirFeedRecs :
         ImportDirection([dirs |-> dirs, fees |-> fees], d).ok

\* A record whose second sub-record does not resolve and whose third does:
\* the direction has the rows of the first and the third, and it is the
\* second record of its run.
C22_Witness ==
  /\ last.op = "direction"
  /\ last.d.tuition_fees = <<FeeA1, FeeNone, FeeB>>
  /\ {r.education_type : r \in {x \in fees : x.direction = last.dir}} = {1, 2}
  /\ last.fees = {}
  /\ run.n = 2

\* The rows of table with the name and the university of the row i of dirs.
SamePair(table, i) ==
  {j \in DOMAIN table :
     /\ table[j].direction_name = dirs[i].direction_name
     /\ table[j].university = dirs[i].university}

\* C23: after any sequence of import_directions runs there is at most one
\* Direction row for a pair (direction_name, university); a record whose
\* pair has a row updates that row and is counted as updated, a record
\* whose pair has none creates one, and the created count of a run is the
\* number of rows it has added.
C23_OneDirectionPerPair ==
  /\ \A i \in DOMAIN dirs : SamePair(dirs, i) = {i}
  /\ (last.op = "direction" /\ last.kind # "skipped") =>
       /\ dirs[last.dir].university = last.d.university_id
       /\ IF SamePair(last.dirs, last.dir) # {}
          THEN /\ last.kind = "updated"
               /\ SamePair(last.dirs, last.dir) = {last.dir}
               /\ DOMAIN dirs = DOMAIN last.dirs
          ELSE /\ last.kind = "created"
               /\ DOMAIN dirs = DOMAIN last.dirs \cup {last.dir}
               /\ last.dir \notin DOMAIN last.dirs
  /\ run.cmd = "import_directions" =>
       /\ run.created = Cardinality(DOMAIN dirs \ DOMAIN run.before.dirs)
       /\ run.created + run.updated + run.skipped = run.n

\* The direction Math of the second university is written again in a later
\* run while the first university has a direction of the same name: the
\* record is counted as updated and both rows stay.
C23_Witness ==
  /\ last.op = "direction"
  /\ last.kind = "updated"
  /\ last.d.university_id = 2
  /\ run.updated = 1 /\ run.created = 0
  /\ Cardinality(DOMAIN dirs) = 2
  /\ \A i \in DOMAIN dirs : dirs[i].direction_name = "Math"

\* The relation arrays of a university record and of a direction record,
\* with the column each one sets.
UniRelations ==
  {<<"education_type", "education_types">>,
   <<"education_language", "education_languages">>,
   <<"degree", "degrees">>}

DirRelations ==
  {<<"education_types", "education_types">>,
   <<"education_languages", "education_languages">>,
   <<"degrees", "degrees">>}

\* The first record of a run leaves the links of the relations it has no
\* array for as they were before the run.
UniLinksKept ==
  (last.op = "university" /\ run.n = 1
   /\ last.uni \in DOMAIN run.before.unis) =>
    \A rel \in UniRelations :
      rel[1] \notin last.u.has =>
        unis[last.uni][rel[2]] = run.before.unis[last.uni][rel[2]]

\* A record that updates a direction leaves the links of the relations it
\* has no array for as they were.
DirLinksKept ==
  (last.op = "direction" /\ last.kind = "updated") =>
    \A rel \in DirRelations :
      rel[1] \notin last.d.has =>
        dirs[last.dir][rel[2]] = last.dirs[last.dir][rel[2]]

\* C28: a record that carries no array for a relation leaves the existing
\* links of that relation unchanged, in import_universities and in
\* import_directions alike.
C28_Original == UniLinksKept /\ DirLinksKept

(***************************************************************************)
(* Claims about the Gallery rows of a run, checked under SpecMedia.        *)
(***************************************************************************)
\* A Gallery row that is a link or has an image attached.
HasContent(g) == g.link # "" \/ g.image # ""

\* C29: every Gallery row that exists after an import_universities run has
\* a non-empty link or an attached image; a gallery entry whose image
\* download failed leaves no Gallery row.
C29_Original ==
  /\ (last.op = "report" /\ last.cmd = "import_universities") =>
       \A g \in gallery : HasContent(g)
  /\ last.op = "university" =>
       \A g \in gallery \ last.gallery : HasContent(g)

(***************************************************************************)
(* Claims about the University table after whole runs, checked under Spec. *)
(***************************************************************************)
\* C27: after any sequence of successful import_universities runs,
\* including runs on feeds that give an imported full_name another id or
\* slug, no two University rows share a full_name.
C27_Original ==
  \A i, j \in DOMAIN unis :
    unis[i].full_name = unis[j].full_name => i = j

(***************************************************************************)
(* Claims that compare a list view with its API, checked under             *)
(* SpecListing.                                                            *)
(***************************************************************************)
\* C26: direction_filter_api returns the same queryset as DirectionListView
\* for every combination of university, category, education_type,
\* education_language, degree, admission_status and search: on a request
\* the view answers with a queryset, the API answers with the same set of
\* directions.
C26_Original ==
  (/\ last.op = "request"
   /\ resp.view = "direction_filter_api"
   /\ last.q.page = ""
   /\ ~DirQueryFails(last.q)) =>
    /\ resp.status = "200"
    /\ Range(resp.rows) = DirSelected(last.q)


\* The sequences the query q may yield in a store that sorts nulls after
\* the numbers (null_high) or before them.
PossibleRows(q, null_high) ==
  {UniQuerySet(q, order) :
     order \in UniOrders(UniSelected(q), q.sort, null_high)}

\* A request that UniversityListView has answered is sent to
\* university_filter_api, both answer with a page, and both answers are of
\* one store (where nulls sort is a property of the store).
SameRequestToApi ==
  /\ last.op = "request"
  /\ resp.view = "UniversityListView"
  /\ resp'.view = "university_filter_api"
  /\ last'.q = last.q
  /\ resp.status = "200"
  /\ resp'.status = "200"
  /\ \E null_high \in BOOLEAN :
       /\ resp.rows \in PossibleRows(last.q, null_high)
       /\ resp'.rows \in PossibleRows(last.q, null_high)

OptionNamed(p, v, n) ==
  IF p = "university"
  THEN \E id \in DOMAIN unis : Str(id) = v /\ unis[id].full_name = n
  ELSE \E id \in DOMAIN tax[ParamMapping[p][2]] :
         Str(id) = v /\ tax[ParamMapping[p][2]][id] = n

\* The list `values` without its element at i.
WithoutIndex(values, i) ==
  SubSeq(values, 1, i - 1) \o SubSeq(values, i + 1, Len(values))

\* The entry e is of the value at i of the parameter p of the last request.
EntryOf(e, p, i) ==
  /\ e.title = ParamMapping[p][1]
  /\ OptionNamed(p, last.q[p][i], e.name)
  /\ e.remove_url.query = [last.q EXCEPT ![p] = WithoutIndex(@, i)]

\* C30: in filter_summary every active-filter entry produced for a
\* multi-valued parameter pairs a selected value with the name of the
\* option whose id is that value, and its remove_url is the current query
\* with exactly that value removed from the parameter and everything else
\* unchanged, for any order of the selected values and also when a selected
\* value matches no option.
C30_Original ==
  (last.op = "get" /\ resp # NoEvent) =>
    \A k \in DOMAIN resp.active_filters :
      (\E p \in DOMAIN ParamMapping :
         resp.active_filters[k].title = ParamMapping[p][1]) =>
        \E p \in DOMAIN ParamMapping :
          \E i \in DOMAIN last.q[p] : EntryOf(resp.active_filters[k], p, i)

(***************************************************************************)
(* Claims about concurrent runs, checked under SpecRace.                   *)
(***************************************************************************)
\* Both runs have ended and were open at the same time.
RaceOver ==
  /\ run.overlap
  /\ \A i \in 1..2 : run.tx[i].at \in {"done", "failed"}

\* The rows of the name the two records share.
RowsOfName == {id \in DOMAIN unis : unis[id].full_name = "TSU"}

\* C24: when two import_universities runs execute concurrently on records
\* with the same full_name, both runs complete and the store ends with
\* exactly one University row of that name, whose values are those written
\* by the run that committed last.
C24_Original ==
  RaceOver =>
    /\ \A i \in 1..2 : run.tx[i].at = "done"
    /\ Cardinality(RowsOfName) = 1
    /\ \A id \in RowsOfName :
         /\ id = run.tx[run.committed[2]].u.id
         /\ ScalarsWritten(unis[id], run.tx[run.committed[2]].u)
         /\ unis[id].slug = UniSlug(run.tx[run.committed[2]].u)
====
